---------------------------- MODULE Spec2Model ----------------------------
(***************************************************************************)
(* Model of the AGENTS.md reference parser (parsers/typescript), of its     *)
(* discovery client fetchPolicy, and of the PolicyCache that wraps it.      *)
(*                                                                         *)
(* Text is modelled character by character: a string is a sequence of      *)
(* one-character strings, so that splitting, trimming, case folding and    *)
(* integer round trips are computed the way parser.ts computes them.       *)
(* An optional value (a TypeScript `T | undefined`) is the empty sequence  *)
(* when absent and a one-element sequence <<v>> when present.              *)
(***************************************************************************)
EXTENDS Integers, Sequences, FiniteSets, TLC

VARIABLES
    content,    \* the text handed to the last parse call
    sections,   \* parse's local `sections` (<<>> when the call returned before extracting)
    outcome,    \* the ParseResult the last parse call returned
    log,        \* the (content, outcome) pairs of the calls made on one parser instance
    fetchCall,  \* the fetchPolicy call: None before it is made, then its arguments
    pc,         \* where fetchPolicy stands: "idle", "fetch", "text" or "done"
    attempts,   \* the attemptFetch calls of the fetchPolicy call, in the order made
    elapsed,    \* milliseconds since the running attemptFetch set its timer
    settled,    \* how the fetchPolicy promise settled: None while it is pending
    cache,      \* PolicyCache.cache: a Map from base URL to {policy, fetchedAt}
    clock,      \* Date.now()
    ticks,      \* the advances of Date.now() observed so far
    cacheCalls, \* the getPolicy calls made on the PolicyCache, in the order made
    validation, \* the validate call: None before it is made, then its policy and result
    diagnostics,\* the analyzeDocument call: None before it is made, then its result
    disk,       \* the files of the working directory: a function from path to content
    initRun     \* the init command: None before it runs, then its options and outcome

parseVars == <<content, sections, outcome, log>>

fetchVars == <<fetchCall, pc, attempts, elapsed, settled>>

cacheVars == <<cache, clock, ticks, cacheCalls>>

toolVars == <<validation, diagnostics, disk, initRun>>

vars == <<content, sections, outcome, log, fetchCall, pc, attempts, elapsed, settled,
          cache, clock, ticks, cacheCalls,
          validation, diagnostics, disk, initRun>>

-----------------------------------------------------------------------------
(* Bounds of the model.                                                    *)

\* Lines of free text after the optional fixed head of a generated file.
MaxLines == 2

\* Directive lines under the one section heading of a field-focused file.
MaxDirectives == 2

\* parse calls recorded on one parser instance.
MaxCalls == 3

\* Milliseconds by which the clock of a fetch attempt advances in one step.
TickMs == 5000

\* getPolicy calls made on one PolicyCache.
MaxGetPolicyCalls == 2

\* Section blocks of a file with repeated section headings.
MaxSections == 3

\* Advances of Date.now() observed over the life of one PolicyCache.
MaxClockTicks == 3

-----------------------------------------------------------------------------
(* Strings.                                                                *)

None == <<>>

Some(v) == <<v>>

\* Characters String.prototype.trim strips and the regular expression \s matches.
Whitespace == {" ", "\t", "\r", "\n"}

\* Characters the regular expression `.` does not match.
LineTerminators == {"\r", "\n"}

Digits == {"0", "1", "2", "3", "4", "5", "6", "7", "8", "9"}

UpperToLower ==
    ("A" :> "a") @@ ("B" :> "b") @@ ("C" :> "c") @@ ("D" :> "d") @@ ("E" :> "e") @@
    ("F" :> "f") @@ ("G" :> "g") @@ ("H" :> "h") @@ ("I" :> "i") @@ ("J" :> "j") @@
    ("K" :> "k") @@ ("L" :> "l") @@ ("M" :> "m") @@ ("N" :> "n") @@ ("O" :> "o") @@
    ("P" :> "p") @@ ("Q" :> "q") @@ ("R" :> "r") @@ ("S" :> "s") @@ ("T" :> "t") @@
    ("U" :> "u") @@ ("V" :> "v") @@ ("W" :> "w") @@ ("X" :> "x") @@ ("Y" :> "y") @@
    ("Z" :> "z")

LowerToUpper ==
    [c \in {UpperToLower[u] : u \in DOMAIN UpperToLower} |->
        CHOOSE u \in DOMAIN UpperToLower : UpperToLower[u] = c]

\* String.prototype.toLowerCase
ToLowerCase(s) ==
    [i \in 1..Len(s) |-> IF s[i] \in DOMAIN UpperToLower THEN UpperToLower[s[i]] ELSE s[i]]

\* The first index from i on whose character is not in `chars`; Len(s) + 1 when none.
SkipForward(s, i, chars) ==
    IF \A j \in i..Len(s) : s[j] \in chars THEN Len(s) + 1
    ELSE CHOOSE j \in i..Len(s) : s[j] \notin chars /\ \A k \in i..(j - 1) : s[k] \in chars

SkipWhitespace(s, i) == SkipForward(s, i, Whitespace)

\* The last index up to i whose character is not whitespace; 0 when none.
SkipWhitespaceBack(s, i) ==
    IF \A j \in 1..i : s[j] \in Whitespace THEN 0
    ELSE CHOOSE j \in 1..i : s[j] \notin Whitespace /\ \A k \in (j + 1)..i : s[k] \in Whitespace

\* String.prototype.trim
Trim(s) ==
    LET a == SkipWhitespace(s, 1)
        b == SkipWhitespaceBack(s, Len(s))
    IN  IF a > b THEN <<>> ELSE SubSeq(s, a, b)

\* String.prototype.startsWith
StartsWith(s, prefix) ==
    /\ Len(s) >= Len(prefix)
    /\ \A i \in 1..Len(prefix) : s[i] = prefix[i]

\* String.prototype.slice(from) with a 0-based `from`
SliceFrom(s, from) == SubSeq(s, from + 1, Len(s))

\* String.prototype.slice(0, to) with a 0-based, exclusive `to`
SliceTo(s, to) == SubSeq(s, 1, to)

\* indexOf finding the last occurrence, as lastIndexOf does
IndexOfLast(s, c) ==
    IF \A j \in 1..Len(s) : s[j] # c THEN -1
    ELSE (CHOOSE j \in 1..Len(s) : s[j] = c /\ \A k \in (j + 1)..Len(s) : s[k] # c) - 1

\* String.prototype.indexOf for a one-character needle: 0-based, -1 when absent
IndexOf(s, c) ==
    IF \A j \in 1..Len(s) : s[j] # c THEN -1
    ELSE (CHOOSE j \in 1..Len(s) : s[j] = c /\ \A k \in 1..(j - 1) : s[k] # c) - 1

\* The k-th smallest element of a set of integers.
Nth(S, k) == CHOOSE x \in S : Cardinality({y \in S : y < x}) = k - 1

\* The pieces of s between the separators that end at the indices `ends`, the
\* separator ending at e being width[e] characters wide.
Pieces(s, ends, width) ==
    [k \in 1..(Cardinality(ends) + 1) |->
        LET from == IF k = 1 THEN 1 ELSE Nth(ends, k - 1) + 1
            to == IF k = Cardinality(ends) + 1 THEN Len(s)
                  ELSE Nth(ends, k) - width[Nth(ends, k)]
        IN  SubSeq(s, from, to)]

\* String.prototype.split for a one-character separator
Split(s, sep) ==
    LET ends == {i \in 1..Len(s) : s[i] = sep}
    IN  Pieces(s, ends, [e \in ends |-> 1])

\* content.split(/\r?\n/): a line ends at "\n", or at "\r" when "\n" follows it
SplitLines(s) ==
    LET ends == {i \in 1..Len(s) : s[i] = "\n"}
    IN  Pieces(s, ends, [e \in ends |-> IF e > 1 /\ s[e - 1] = "\r" THEN 2 ELSE 1])

-----------------------------------------------------------------------------
(* Ordered maps (the JavaScript Map): a sequence of <<key, value>> pairs   *)
(* in insertion order; setting an existing key keeps its position.         *)

MapHas(m, k) == \E i \in 1..Len(m) : m[i][1] = k

\* Map.prototype.get: None for undefined
MapGet(m, k) ==
    IF MapHas(m, k) THEN Some(m[CHOOSE i \in 1..Len(m) : m[i][1] = k][2]) ELSE None

MapSet(m, k, v) ==
    IF MapHas(m, k)
    THEN [i \in 1..Len(m) |-> IF m[i][1] = k THEN <<k, v>> ELSE m[i]]
    ELSE Append(m, <<k, v>>)

MapKeys(m) == [i \in 1..Len(m) |-> m[i][1]]

-----------------------------------------------------------------------------
(* Section and directive extraction.                                       *)

\* line.match(/^##\s+(.+)$/): the capture group when the line matches, None otherwise.
\* \s+ is greedy and gives characters back until (.+) can take the rest of the line.
SectionMatch(line) ==
    LET n == Len(line)
        w == SkipWhitespace(line, 3)
        starts == {p \in 4..n : /\ p <= w
                                /\ \A i \in p..n : line[i] \notin LineTerminators}
    IN  IF n < 4 \/ line[1] # "#" \/ line[2] # "#" \/ line[3] \notin Whitespace \/ starts = {}
        THEN None
        ELSE Some(SubSeq(line, CHOOSE p \in starts : \A q \in starts : q <= p, n))

RECURSIVE ParseKeyValueFrom(_, _, _)
ParseKeyValueFrom(lines, i, data) ==
    IF i > Len(lines) THEN data
    ELSE
        LET trimmed == Trim(lines[i])
            withoutBullet == SliceFrom(trimmed, 2)
            colonIndex == IndexOf(withoutBullet, ":")
            key == ToLowerCase(Trim(SliceTo(withoutBullet, colonIndex)))
            value == Trim(SliceFrom(withoutBullet, colonIndex + 1))
        IN  IF trimmed = <<>> \/ StartsWith(trimmed, <<"#">>) THEN ParseKeyValueFrom(lines, i + 1, data)
            ELSE IF ~StartsWith(trimmed, <<"-"," ">>) THEN ParseKeyValueFrom(lines, i + 1, data)
            ELSE IF colonIndex = -1 THEN ParseKeyValueFrom(lines, i + 1, data)
            ELSE IF Len(key) > 0 THEN ParseKeyValueFrom(lines, i + 1, MapSet(data, key, value))
            ELSE ParseKeyValueFrom(lines, i + 1, data)

\* parseKeyValueLines: the directives of a section body, as a Map from key to raw value
ParseKeyValueLines(lines) == ParseKeyValueFrom(lines, 1, <<>>)

\* flushSection merging the directives into those of an earlier section of the name
FlushSectionMerging(result, currentSectionName, currentSectionLines) ==
    IF currentSectionName # None
    THEN MapSet(result, currentSectionName[1],
                ParseKeyValueFrom(currentSectionLines, 1,
                    IF MapHas(result, currentSectionName[1])
                    THEN MapGet(result, currentSectionName[1])[1] ELSE <<>>))
    ELSE result

\* flushSection inside extractSections
FlushSection(result, currentSectionName, currentSectionLines) ==
    IF currentSectionName # None
    THEN MapSet(result, currentSectionName[1], ParseKeyValueLines(currentSectionLines))
    ELSE result

RECURSIVE ExtractFrom(_, _, _, _, _)
ExtractFrom(lines, i, result, currentSectionName, currentSectionLines) ==
    IF i > Len(lines) THEN FlushSection(result, currentSectionName, currentSectionLines)
    ELSE
        LET sectionMatch == SectionMatch(lines[i])
        IN  IF sectionMatch # None
            THEN ExtractFrom(lines, i + 1,
                             FlushSection(result, currentSectionName, currentSectionLines),
                             Some(ToLowerCase(Trim(sectionMatch[1]))), <<>>)
            ELSE IF currentSectionName # None
            THEN ExtractFrom(lines, i + 1, result, currentSectionName,
                             Append(currentSectionLines, lines[i]))
            ELSE ExtractFrom(lines, i + 1, result, currentSectionName, currentSectionLines)

\* extractSections: a Map from normalized section name to the section's directives
ExtractSections(text) == ExtractFrom(SplitLines(text), 1, <<>>, None, <<>>)

-----------------------------------------------------------------------------
(* Type coercion.  A coercer that may push a warning returns the value     *)
(* together with the warnings array as it leaves it.                       *)

\* A ParseWarning: `text` names the message template, `raw` and `key` are the
\* values interpolated into it.
Warning(section, text, raw, key) ==
    [section |-> section, text |-> text, raw |-> raw, key |-> key]

DigitChar == <<"0", "1", "2", "3", "4", "5", "6", "7", "8", "9">>

DigitValue(c) == CHOOSE d \in 0..9 : DigitChar[d + 1] = c

\* The index after the run of digits that starts at i.
DigitsEnd(s, i) == SkipForward(s, i, Digits)

RECURSIVE DigitsValue(_, _, _, _)
DigitsValue(s, i, end, acc) ==
    IF i >= end THEN acc ELSE DigitsValue(s, i + 1, end, acc * 10 + DigitValue(s[i]))

\* parseInt from index a on, the leading whitespace skipped: an optional sign,
\* then the longest run of digits.
ParseIntFrom(raw, a) ==
    LET signed == a <= Len(raw) /\ raw[a] \in {"+", "-"}
        b == IF signed THEN a + 1 ELSE a
        magnitude == DigitsValue(raw, b, DigitsEnd(raw, b), 0)
    IN  IF DigitsEnd(raw, b) = b THEN None
        ELSE Some(IF signed /\ raw[a] = "-" THEN -magnitude ELSE magnitude)

\* parseInt(raw, 10): leading whitespace, an optional sign, the longest run of
\* digits; None stands for NaN. Exact for the digit strings the model feeds it.
ParseInt(raw) == ParseIntFrom(raw, SkipWhitespace(raw, 1))

RECURSIVE NaturalToString(_)
NaturalToString(n) ==
    IF n < 10 THEN <<DigitChar[n + 1]>>
    ELSE Append(NaturalToString(n \div 10), DigitChar[(n % 10) + 1])

\* Number.prototype.toString for an integer
NumberToString(n) ==
    IF n < 0 THEN <<"-">> \o NaturalToString(-n) ELSE NaturalToString(n)

TrueWords == {<<"t","r","u","e">>, <<"y","e","s">>, <<"1">>, <<"o","n">>}

FalseWords == {<<"f","a","l","s","e">>, <<"n","o">>, <<"0">>, <<"o","f","f">>}

\* parseBooleanValue with an unrecognized value read as false
ParseBooleanValueFalseOnUnknown(raw, section, key, warnings) ==
    LET normalized == Trim(ToLowerCase(raw))
    IN  IF normalized \in TrueWords THEN [value |-> Some(TRUE), warnings |-> warnings]
        ELSE IF normalized \in FalseWords THEN [value |-> Some(FALSE), warnings |-> warnings]
        ELSE [value |-> Some(FALSE),
              warnings |-> Append(warnings,
                                  Warning(section, "Unrecognized boolean value", raw, key))]

\* parseBooleanValue
ParseBooleanValue(raw, section, key, warnings) ==
    LET normalized == Trim(ToLowerCase(raw))
    IN  IF normalized \in TrueWords THEN [value |-> Some(TRUE), warnings |-> warnings]
        ELSE IF normalized \in FalseWords THEN [value |-> Some(FALSE), warnings |-> warnings]
        ELSE [value |-> None,
              warnings |-> Append(warnings,
                                  Warning(section, "Unrecognized boolean value", raw, key))]

\* parseIntegerValue without the round-trip comparison: a numeric prefix is enough
ParseIntegerValueLenient(raw, section, key, warnings) ==
    LET parsed == ParseInt(raw)
    IN  IF parsed = None
        THEN [value |-> None,
              warnings |-> Append(warnings, Warning(section, "Invalid integer value", raw, key))]
        ELSE [value |-> parsed, warnings |-> warnings]

\* parseIntegerValue
ParseIntegerValue(raw, section, key, warnings) ==
    LET parsed == ParseInt(raw)
    IN  IF parsed = None \/ NumberToString(parsed[1]) # Trim(raw)
        THEN [value |-> None,
              warnings |-> Append(warnings, Warning(section, "Invalid integer value", raw, key))]
        ELSE [value |-> parsed, warnings |-> warnings]

\* parseArrayValue
ParseArrayValue(raw) ==
    SelectSeq([i \in 1..Len(Split(raw, ",")) |-> Trim(Split(raw, ",")[i])],
              LAMBDA item : Len(item) > 0)

-----------------------------------------------------------------------------
(* The section parsers.  `data` is an optional SectionData: None when the  *)
(* file has no such section.  Each returns its value and the warnings.     *)

IdentityKnownKeys == {<<"s","i","t","e">>, <<"c","o","n","t","a","c","t">>, <<"l","a","s","t","-","u","p","d","a","t","e","d">>, <<"s","p","e","c","-","v","e","r","s","i","o","n">>}

RECURSIVE WarnUnrecognizedKeys(_, _, _)
WarnUnrecognizedKeys(keys, i, warnings) ==
    IF i > Len(keys) THEN warnings
    ELSE IF keys[i] \notin IdentityKnownKeys /\ ~StartsWith(keys[i], <<"x","-">>)
    THEN WarnUnrecognizedKeys(keys, i + 1,
             Append(warnings, Warning("identity", "Unrecognized key", <<>>, keys[i])))
    ELSE WarnUnrecognizedKeys(keys, i + 1, warnings)

\* `if (v) field = v`: a string is truthy when it is present and not empty
Truthy(opt) == IF opt # None /\ opt[1] # <<>> THEN opt ELSE None

\* parseIdentitySection with the unrecognized-key warnings pushed before the site check
ParseIdentitySectionWarnFirst(data, warnings) ==
    LET site == MapGet(data, <<"s","i","t","e">>)
        warned == WarnUnrecognizedKeys(MapKeys(data), 1, warnings)
    IN  IF site = None \/ site[1] = <<>> \/ Len(Trim(site[1])) = 0
        THEN [identity |-> None, warnings |-> warned]
        ELSE [identity |-> Some([site |-> Trim(site[1]),
                                 contact |-> Truthy(MapGet(data, <<"c","o","n","t","a","c","t">>)),
                                 lastUpdated |-> Truthy(MapGet(data, <<"l","a","s","t","-","u","p","d","a","t","e","d">>)),
                                 specVersion |-> Truthy(MapGet(data, <<"s","p","e","c","-","v","e","r","s","i","o","n">>))]),
              warnings |-> warned]

\* parseIdentitySection with an unrecognized key treated as fatal
ParseIdentitySectionStrict(data, warnings) ==
    LET site == MapGet(data, <<"s","i","t","e">>)
        warned == WarnUnrecognizedKeys(MapKeys(data), 1, warnings)
    IN  IF site = None \/ site[1] = <<>> \/ Len(Trim(site[1])) = 0 \/ warned # warnings
        THEN [identity |-> None, warnings |-> warnings]
        ELSE [identity |-> Some([site |-> Trim(site[1]),
                                 contact |-> Truthy(MapGet(data, <<"c","o","n","t","a","c","t">>)),
                                 lastUpdated |-> Truthy(MapGet(data, <<"l","a","s","t","-","u","p","d","a","t","e","d">>)),
                                 specVersion |-> Truthy(MapGet(data, <<"s","p","e","c","-","v","e","r","s","i","o","n">>))]),
              warnings |-> warned]

\* parseIdentitySection: identity is None for the null the code returns
ParseIdentitySection(data, warnings) ==
    LET site == MapGet(data, <<"s","i","t","e">>)
    IN  IF site = None \/ site[1] = <<>> \/ Len(Trim(site[1])) = 0
        THEN [identity |-> None, warnings |-> warnings]
        ELSE [identity |-> Some([site |-> Trim(site[1]),
                                 contact |-> Truthy(MapGet(data, <<"c","o","n","t","a","c","t">>)),
                                 lastUpdated |-> Truthy(MapGet(data, <<"l","a","s","t","-","u","p","d","a","t","e","d">>)),
                                 specVersion |-> Truthy(MapGet(data, <<"s","p","e","c","-","v","e","r","s","i","o","n">>))]),
              warnings |-> WarnUnrecognizedKeys(MapKeys(data), 1, warnings)]

TrustDefaults ==
    [minimumTrustLevel |-> 0, authentication |-> <<"n","o","n","e">>, authenticationMethods |-> None]

MinTrustLevel == 0

MaxTrustLevel == 5

\* ClampTrustLevel that clamps nothing
ClampTrustLevelUnbounded(level) == level

\* Math.max(0, Math.min(5, level))
ClampTrustLevel(level) ==
    IF level < MinTrustLevel THEN MinTrustLevel
    ELSE IF level > MaxTrustLevel THEN MaxTrustLevel
    ELSE level

\* the range check of parseTrustRequirements on the coerced minimum-trust-level
CheckTrustLevel(coerced) ==
    IF coerced.value = None
    THEN [value |-> TrustDefaults.minimumTrustLevel, warnings |-> coerced.warnings]
    ELSE IF coerced.value[1] < MinTrustLevel \/ coerced.value[1] > MaxTrustLevel
    THEN [value |-> ClampTrustLevel(coerced.value[1]),
          warnings |-> Append(coerced.warnings,
                              Warning("trust requirements", "Trust level outside 0-5",
                                      NumberToString(coerced.value[1]), <<"m","i","n","i","m","u","m","-","t","r","u","s","t","-","l","e","v","e","l">>))]
    ELSE [value |-> coerced.value[1], warnings |-> coerced.warnings]

\* the minimum-trust-level block of parseTrustRequirements
ParseTrustLevel(data, warnings) ==
    LET rawLevel == MapGet(data, <<"m","i","n","i","m","u","m","-","t","r","u","s","t","-","l","e","v","e","l">>)
    IN  IF rawLevel = None THEN [value |-> TrustDefaults.minimumTrustLevel, warnings |-> warnings]
        ELSE CheckTrustLevel(ParseIntegerValue(rawLevel[1], "trust requirements",
                                               <<"m","i","n","i","m","u","m","-","t","r","u","s","t","-","l","e","v","e","l">>, warnings))

AuthenticationValues == {<<"r","e","q","u","i","r","e","d">>, <<"o","p","t","i","o","n","a","l">>, <<"n","o","n","e">>}

\* the authentication block of parseTrustRequirements
ParseAuthentication(data, warnings) ==
    LET rawAuth == MapGet(data, <<"a","u","t","h","e","n","t","i","c","a","t","i","o","n">>)
        normalized == Trim(ToLowerCase(rawAuth[1]))
    IN  IF rawAuth = None THEN [value |-> TrustDefaults.authentication, warnings |-> warnings]
        ELSE IF normalized \in AuthenticationValues
        THEN [value |-> normalized, warnings |-> warnings]
        ELSE [value |-> TrustDefaults.authentication,
              warnings |-> Append(warnings,
                                  Warning("trust requirements",
                                          "Unrecognized authentication value",
                                          rawAuth[1], <<"a","u","t","h","e","n","t","i","c","a","t","i","o","n">>))]

\* parseTrustRequirements
ParseTrustRequirements(data, warnings) ==
    IF data = None THEN [value |-> TrustDefaults, warnings |-> warnings]
    ELSE
        LET level == ParseTrustLevel(data[1], warnings)
            auth == ParseAuthentication(data[1], level.warnings)
            rawMethods == MapGet(data[1], <<"a","u","t","h","e","n","t","i","c","a","t","i","o","n","-","m","e","t","h","o","d","s">>)
        IN  [value |-> [minimumTrustLevel |-> level.value,
                        authentication |-> auth.value,
                        authenticationMethods |->
                            IF rawMethods # None THEN Some(ParseArrayValue(rawMethods[1]))
                            ELSE None],
             warnings |-> auth.warnings]

\* keyMap of parseAllowedActions: markdown key, camelCase property name
ActionKeyMap == <<
    <<<<"r","e","a","d","-","c","o","n","t","e","n","t">>, <<"r","e","a","d","C","o","n","t","e","n","t">>>>,
    <<<<"s","u","b","m","i","t","-","f","o","r","m","s">>, <<"s","u","b","m","i","t","F","o","r","m","s">>>>,
    <<<<"m","a","k","e","-","p","u","r","c","h","a","s","e","s">>, <<"m","a","k","e","P","u","r","c","h","a","s","e","s">>>>,
    <<<<"m","o","d","i","f","y","-","a","c","c","o","u","n","t">>, <<"m","o","d","i","f","y","A","c","c","o","u","n","t">>>>,
    <<<<"a","c","c","e","s","s","-","a","p","i">>, <<"a","c","c","e","s","s","A","p","i">>>>,
    <<<<"d","o","w","n","l","o","a","d","-","f","i","l","e","s">>, <<"d","o","w","n","l","o","a","d","F","i","l","e","s">>>>,
    <<<<"u","p","l","o","a","d","-","f","i","l","e","s">>, <<"u","p","l","o","a","d","F","i","l","e","s">>>>,
    <<<<"s","e","n","d","-","m","e","s","s","a","g","e","s">>, <<"s","e","n","d","M","e","s","s","a","g","e","s">>>>,
    <<<<"d","e","l","e","t","e","-","d","a","t","a">>, <<"d","e","l","e","t","e","D","a","t","a">>>>,
    <<<<"c","r","e","a","t","e","-","c","o","n","t","e","n","t">>, <<"c","r","e","a","t","e","C","o","n","t","e","n","t">>>> >>

\* ActionDefaults with read-content denied like every other action
ActionDefaultsAllDenied == <<
    <<<<"r","e","a","d","C","o","n","t","e","n","t">>, FALSE>>,
    <<<<"s","u","b","m","i","t","F","o","r","m","s">>, FALSE>>,
    <<<<"m","a","k","e","P","u","r","c","h","a","s","e","s">>, FALSE>>,
    <<<<"m","o","d","i","f","y","A","c","c","o","u","n","t">>, FALSE>>,
    <<<<"a","c","c","e","s","s","A","p","i">>, FALSE>>,
    <<<<"d","o","w","n","l","o","a","d","F","i","l","e","s">>, FALSE>>,
    <<<<"u","p","l","o","a","d","F","i","l","e","s">>, FALSE>>,
    <<<<"s","e","n","d","M","e","s","s","a","g","e","s">>, FALSE>>,
    <<<<"d","e","l","e","t","e","D","a","t","a">>, FALSE>>,
    <<<<"c","r","e","a","t","e","C","o","n","t","e","n","t">>, FALSE>> >>

\* defaults of parseAllowedActions: property name, value
ActionDefaults == <<
    <<<<"r","e","a","d","C","o","n","t","e","n","t">>, TRUE>>,
    <<<<"s","u","b","m","i","t","F","o","r","m","s">>, FALSE>>,
    <<<<"m","a","k","e","P","u","r","c","h","a","s","e","s">>, FALSE>>,
    <<<<"m","o","d","i","f","y","A","c","c","o","u","n","t">>, FALSE>>,
    <<<<"a","c","c","e","s","s","A","p","i">>, FALSE>>,
    <<<<"d","o","w","n","l","o","a","d","F","i","l","e","s">>, FALSE>>,
    <<<<"u","p","l","o","a","d","F","i","l","e","s">>, FALSE>>,
    <<<<"s","e","n","d","M","e","s","s","a","g","e","s">>, FALSE>>,
    <<<<"d","e","l","e","t","e","D","a","t","a">>, FALSE>>,
    <<<<"c","r","e","a","t","e","C","o","n","t","e","n","t">>, FALSE>> >>

RECURSIVE KebabToCamelFrom(_, _)
KebabToCamelFrom(s, i) ==
    IF i > Len(s) THEN <<>>
    ELSE IF s[i] = "-" /\ i < Len(s) /\ s[i + 1] \in DOMAIN LowerToUpper
    THEN <<LowerToUpper[s[i + 1]]>> \o KebabToCamelFrom(s, i + 2)
    ELSE <<s[i]>> \o KebabToCamelFrom(s, i + 1)

\* kebabToCamel: kebab.replace(/-([a-z])/g, upper-cased letter)
KebabToCamel(kebab) == KebabToCamelFrom(kebab, 1)

\* keyMap[rawKey] ?? this.kebabToCamel(rawKey)
CamelKey(rawKey) ==
    IF MapHas(ActionKeyMap, rawKey) THEN MapGet(ActionKeyMap, rawKey)[1]
    ELSE KebabToCamel(rawKey)

RECURSIVE ParseActionsFrom(_, _, _, _)
ParseActionsFrom(data, i, result, warnings) ==
    IF i > Len(data) THEN [value |-> result, warnings |-> warnings]
    ELSE
        LET rawKey == data[i][1]
            rawValue == data[i][2]
            boolValue == ParseBooleanValue(rawValue, "allowed actions", rawKey, warnings)
        IN  IF boolValue.value # None
            THEN ParseActionsFrom(data, i + 1,
                                  MapSet(result, CamelKey(rawKey), boolValue.value[1]),
                                  boolValue.warnings)
            ELSE ParseActionsFrom(data, i + 1, result, boolValue.warnings)

\* parseAllowedActions
ParseAllowedActions(data, warnings) ==
    IF data = None THEN [value |-> ActionDefaults, warnings |-> warnings]
    ELSE ParseActionsFrom(data[1], 1, ActionDefaults, warnings)

\* one rate-limit field of parseRateLimits
ParseRateLimit(data, key, warnings) ==
    LET raw == MapGet(data, key)
    IN  IF raw = None THEN [value |-> None, warnings |-> warnings]
        ELSE ParseIntegerValue(raw[1], "rate limits", key, warnings)

NoRateLimits ==
    [requestsPerMinute |-> None, requestsPerHour |-> None, concurrentSessions |-> None]

\* parseRateLimits
ParseRateLimits(data, warnings) ==
    IF data = None THEN [value |-> NoRateLimits, warnings |-> warnings]
    ELSE
        LET rpm == ParseRateLimit(data[1], <<"r","e","q","u","e","s","t","s","-","p","e","r","-","m","i","n","u","t","e">>, warnings)
            rph == ParseRateLimit(data[1], <<"r","e","q","u","e","s","t","s","-","p","e","r","-","h","o","u","r">>, rpm.warnings)
            concurrent == ParseRateLimit(data[1], <<"c","o","n","c","u","r","r","e","n","t","-","s","e","s","s","i","o","n","s">>, rph.warnings)
        IN  [value |-> [requestsPerMinute |-> rpm.value,
                        requestsPerHour |-> rph.value,
                        concurrentSessions |-> concurrent.value],
             warnings |-> concurrent.warnings]

ValidCollectionValues == {<<"n","o","n","e">>, <<"m","i","n","i","m","a","l">>, <<"s","t","a","n","d","a","r","d">>, <<"e","x","t","e","n","s","i","v","e">>}

ValidRetentionValues == {<<"n","o","n","e">>, <<"s","e","s","s","i","o","n","-","o","n","l","y">>, <<"3","0","-","d","a","y","s">>, <<"1","-","y","e","a","r">>, <<"i","n","d","e","f","i","n","i","t","e">>}

ValidSharingValues == {<<"n","o","n","e">>, <<"a","n","o","n","y","m","i","z","e","d">>, <<"w","i","t","h","-","c","o","n","s","e","n","t">>, <<"u","n","r","e","s","t","r","i","c","t","e","d">>}

\* one enumerated field of parseDataHandling
ParseEnum(data, key, valid, text, warnings) ==
    LET raw == MapGet(data, key)
        normalized == Trim(ToLowerCase(raw[1]))
    IN  IF raw = None THEN [value |-> None, warnings |-> warnings]
        ELSE IF normalized \in valid THEN [value |-> Some(normalized), warnings |-> warnings]
        ELSE [value |-> None,
              warnings |-> Append(warnings, Warning("data handling", text, raw[1], key))]

\* an optional boolean directive, as parseDataHandling and parseAgentIdentification read it
ParseOptionalBoolean(data, section, key, warnings) ==
    LET raw == MapGet(data, key)
    IN  IF raw = None THEN [value |-> None, warnings |-> warnings]
        ELSE ParseBooleanValue(raw[1], section, key, warnings)

NoDataHandling ==
    [personalDataCollection |-> None, dataRetention |-> None,
     thirdPartySharing |-> None, gdprCompliance |-> None]

\* parseDataHandling
ParseDataHandling(data, warnings) ==
    IF data = None THEN [value |-> NoDataHandling, warnings |-> warnings]
    ELSE
        LET collection == ParseEnum(data[1], <<"p","e","r","s","o","n","a","l","-","d","a","t","a","-","c","o","l","l","e","c","t","i","o","n">>, ValidCollectionValues,
                                    "Unrecognized personal-data-collection value", warnings)
            retention == ParseEnum(data[1], <<"d","a","t","a","-","r","e","t","e","n","t","i","o","n">>, ValidRetentionValues,
                                   "Unrecognized data-retention value", collection.warnings)
            sharing == ParseEnum(data[1], <<"t","h","i","r","d","-","p","a","r","t","y","-","s","h","a","r","i","n","g">>, ValidSharingValues,
                                 "Unrecognized third-party-sharing value", retention.warnings)
            gdpr == ParseOptionalBoolean(data[1], "data handling", <<"g","d","p","r","-","c","o","m","p","l","i","a","n","c","e">>,
                                         sharing.warnings)
        IN  [value |-> [personalDataCollection |-> collection.value,
                        dataRetention |-> retention.value,
                        thirdPartySharing |-> sharing.value,
                        gdprCompliance |-> gdpr.value],
             warnings |-> gdpr.warnings]

\* parsePaths inside parseRestrictions
ParsePaths(raw) == IF Truthy(raw) = None THEN <<>> ELSE ParseArrayValue(raw[1])

\* The loop over allPaths leaving after the first warning it pushes
RECURSIVE WarnRelativePathsOnce(_, _, _)
WarnRelativePathsOnce(allPaths, i, warnings) ==
    IF i > Len(allPaths) THEN warnings
    ELSE IF ~StartsWith(allPaths[i], <<"/">>)
    THEN Append(warnings, Warning("restrictions", "Path pattern does not start with /",
                                  allPaths[i], <<>>))
    ELSE WarnRelativePathsOnce(allPaths, i + 1, warnings)

RECURSIVE WarnRelativePaths(_, _, _)
WarnRelativePaths(allPaths, i, warnings) ==
    IF i > Len(allPaths) THEN warnings
    ELSE IF ~StartsWith(allPaths[i], <<"/">>)
    THEN WarnRelativePaths(allPaths, i + 1,
             Append(warnings, Warning("restrictions", "Path pattern does not start with /",
                                      allPaths[i], <<>>)))
    ELSE WarnRelativePaths(allPaths, i + 1, warnings)

NoRestrictions ==
    [disallowedPaths |-> <<>>, requireHumanApproval |-> <<>>, readOnlyPaths |-> <<>>]

\* parseRestrictions
ParseRestrictions(data, warnings) ==
    IF data = None THEN [value |-> NoRestrictions, warnings |-> warnings]
    ELSE
        LET restrictions ==
                [disallowedPaths |-> ParsePaths(MapGet(data[1], <<"d","i","s","a","l","l","o","w","e","d","-","p","a","t","h","s">>)),
                 requireHumanApproval |-> ParsePaths(MapGet(data[1], <<"r","e","q","u","i","r","e","-","h","u","m","a","n","-","a","p","p","r","o","v","a","l">>)),
                 readOnlyPaths |-> ParsePaths(MapGet(data[1], <<"r","e","a","d","-","o","n","l","y","-","p","a","t","h","s">>))]
            allPaths == restrictions.disallowedPaths \o restrictions.requireHumanApproval
                            \o restrictions.readOnlyPaths
        IN  [value |-> restrictions, warnings |-> WarnRelativePaths(allPaths, 1, warnings)]

AgentIdentificationDefaults ==
    [requireAgentHeader |-> FALSE, agentHeaderName |-> None, requireDisclosure |-> FALSE]

\* `if (value !== undefined) result.field = value` over a default
OrDefault(opt, default) == IF opt # None THEN opt[1] ELSE default

\* parseAgentIdentification
ParseAgentIdentification(data, warnings) ==
    IF data = None THEN [value |-> AgentIdentificationDefaults, warnings |-> warnings]
    ELSE
        LET header == ParseOptionalBoolean(data[1], "agent identification",
                                           <<"r","e","q","u","i","r","e","-","a","g","e","n","t","-","h","e","a","d","e","r">>, warnings)
            disclosure == ParseOptionalBoolean(data[1], "agent identification",
                                               <<"r","e","q","u","i","r","e","-","d","i","s","c","l","o","s","u","r","e">>, header.warnings)
        IN  [value |-> [requireAgentHeader |->
                            OrDefault(header.value,
                                      AgentIdentificationDefaults.requireAgentHeader),
                        agentHeaderName |-> Truthy(MapGet(data[1], <<"a","g","e","n","t","-","h","e","a","d","e","r","-","n","a","m","e">>)),
                        requireDisclosure |->
                            OrDefault(disclosure.value,
                                      AgentIdentificationDefaults.requireDisclosure)],
             warnings |-> disclosure.warnings]

-----------------------------------------------------------------------------
(* AgentsMdParser.parse                                                    *)

\* `const errors: ParseError[] = []`
NewErrors == <<>>

\* The warnings array kept by the instance: a call starts from the previous call's
SharedWarnings == IF log = <<>> THEN <<>> ELSE log[Len(log)].outcome.warnings

\* `const warnings: ParseWarning[] = []`: allocated by every call
NewWarnings == <<>>

ParseError(section, message) == [section |-> section, message |-> message]

\* `!content || content.trim().length === 0`
IsBlank(text) == Len(text) = 0 \/ Len(Trim(text)) = 0

FileEmptyResult ==
    [success |-> FALSE, policy |-> None,
     errors |-> <<ParseError("file", "File is empty.")>>, warnings |-> <<>>]

\* MissingIdentityResult with the error attributed to the file, not to Identity
MissingIdentityResultAsFileError ==
    [success |-> FALSE, policy |-> None,
     errors |-> <<ParseError("file", "Missing required ## Identity section.")>>,
     warnings |-> <<>>]

MissingIdentityResult ==
    [success |-> FALSE, policy |-> None,
     errors |-> <<ParseError("identity", "Missing required ## Identity section.")>>,
     warnings |-> <<>>]

\* MissingSiteResult with the structural error left out
MissingSiteResultWithoutError(warnings) ==
    [success |-> FALSE, policy |-> None, errors |-> <<>>, warnings |-> warnings]

MissingSiteResult(warnings) ==
    [success |-> FALSE, policy |-> None,
     errors |-> <<ParseError("identity",
                             "The Identity section is missing the required site key.")>>,
     warnings |-> warnings]

\* The optional sections, in the order parse reads them.
OptionalSections == <<<<"t","r","u","s","t"," ","r","e","q","u","i","r","e","m","e","n","t","s">>, <<"a","l","l","o","w","e","d"," ","a","c","t","i","o","n","s">>, <<"r","a","t","e"," ","l","i","m","i","t","s">>,
                      <<"d","a","t","a"," ","h","a","n","d","l","i","n","g">>, <<"r","e","s","t","r","i","c","t","i","o","n","s">>, <<"a","g","e","n","t"," ","i","d","e","n","t","i","f","i","c","a","t","i","o","n">>>>

\* The k-th optional section parsed from its directives
ParseOptionalSection(k, data, warnings) ==
    CASE k = 1 -> ParseTrustRequirements(data, warnings)
      [] k = 2 -> ParseAllowedActions(data, warnings)
      [] k = 3 -> ParseRateLimits(data, warnings)
      [] k = 4 -> ParseDataHandling(data, warnings)
      [] k = 5 -> ParseRestrictions(data, warnings)
      [] k = 6 -> ParseAgentIdentification(data, warnings)

\* parse's calls of the optional section parsers from the k-th on, each handed the
\* warnings array as the one before left it
RECURSIVE ParseOptionalSectionsFrom(_, _, _, _)
ParseOptionalSectionsFrom(secs, k, values, warnings) ==
    IF k > Len(OptionalSections) THEN [values |-> values, warnings |-> warnings]
    ELSE
        LET parsed == ParseOptionalSection(k, MapGet(secs, OptionalSections[k]), warnings)
        IN  ParseOptionalSectionsFrom(secs, k + 1, Append(values, parsed.value),
                                      parsed.warnings)

\* parse's `policy` and the ParseResult it returns on success
SuccessResult(identity, parsed) ==
    [success |-> Len(NewErrors) = 0,
     policy |-> Some([identity |-> identity,
                      trustRequirements |-> parsed.values[1],
                      allowedActions |-> parsed.values[2],
                      rateLimits |-> parsed.values[3],
                      dataHandling |-> parsed.values[4],
                      restrictions |-> parsed.values[5],
                      agentIdentification |-> parsed.values[6]]),
     errors |-> NewErrors,
     warnings |-> parsed.warnings]

\* parse from the site check on, given what parseIdentitySection returned
ParseAfterIdentity(secs, identityResult) ==
    IF identityResult.identity = None THEN MissingSiteResult(identityResult.warnings)
    ELSE SuccessResult(identityResult.identity[1],
                       ParseOptionalSectionsFrom(secs, 1, <<>>, identityResult.warnings))

\* parse from the Identity check on, given the extracted sections
ParseSections(secs) ==
    IF ~MapHas(secs, <<"i","d","e","n","t","i","t","y">>) THEN MissingIdentityResult
    ELSE ParseAfterIdentity(secs, ParseIdentitySection(MapGet(secs, <<"i","d","e","n","t","i","t","y">>)[1], NewWarnings))

\* parse's local `sections`; <<>> when parse returns before extracting them
SectionsOf(text) == IF IsBlank(text) THEN <<>> ELSE ExtractSections(text)

\* AgentsMdParser.parse
Parse(text) == IF IsBlank(text) THEN FileEmptyResult ELSE ParseSections(ExtractSections(text))

-----------------------------------------------------------------------------
(* The files the model parses.                                             *)

SeqsUpTo(S, n) == UNION {[1..k -> S] : k \in 0..n}

RECURSIVE Join(_, _)
Join(lines, eol) ==
    IF Len(lines) = 0 THEN <<>>
    ELSE IF Len(lines) = 1 THEN lines[1]
    ELSE lines[1] \o eol \o Join(Tail(lines), eol)

Directive(key, value) == <<"-"," ">> \o key \o <<":"," ">> \o value

LineEndings == {<<"\n">>, <<"\r","\n">>}

\* Fixed heads of a file: nothing, an Identity section with a site, one without.
SiteHead == <<<<"#"," ","A","G","E","N","T","S",".","m","d">>, <<"#","#"," ","I","d","e","n","t","i","t","y">>, <<"-"," ","s","i","t","e",":"," ","a">>>>

NoSiteHead == <<<<"#","#"," ","I","d","e","n","t","i","t","y">>, <<"-"," ","f","o","o",":"," ","b">>>>

Heads == {<<>>, SiteHead, NoSiteHead}

FreeLines == {
    <<" ">>,
    <<"#","#"," ","I","d","e","n","t","i","t","y">>,
    <<"#","#","\t","I","D","E","N","T","I","T","Y"," ">>,
    <<"#","#","I","d","e","n","t","i","t","y">>,
    <<" ","-"," "," ","S","i","t","e"," ",":"," "," ","a",":","1"," ">>,
    <<"-"," ","s","i","t","e",":">>,
    <<"-"," ","c","o","n","t","a","c","t",":"," ","c">>,
    <<"-"," ","f","o","o",":"," ","b">>,
    <<"-"," ",":"," ","v">>,
    <<"-"," ","n","o","c","o","l","o","n">>,
    <<"#","#"," ","F","o","o">>,
    <<"#","#"," ","A","l","l","o","w","e","d"," ","A","c","t","i","o","n","s">>,
    <<"-"," ","r","e","a","d","-","c","o","n","t","e","n","t",":"," ","m","a","y","b","e">>,
    <<"-"," ","x","-","o","k",":"," ","t","r","u","e">> }

FreeFiles ==
    {Join(head \o body, eol) : head \in Heads, body \in SeqsUpTo(FreeLines, MaxLines),
                               eol \in LineEndings}

IntegerTexts ==
    {<<"0">>, <<"3">>, <<"5">>, <<"7">>, <<"1","2","0">>, <<"-","3">>, <<"-","0">>, <<"+","3">>, <<"0","0","7">>, <<"1","2","a","b","c">>, <<"3",".","5">>, <<"f","a","s","t">>,
     <<>>}

BooleanTexts ==
    {<<"t","r","u","e">>, <<"Y","E","S">>, <<"1">>, <<"O","n">>, <<"f","a","l","s","e">>, <<"N","o">>, <<"0">>, <<"O","F","F">>, <<"m","a","y","b","e">>, <<"2">>, <<>>}

Directives(key, values) == {Directive(key, v) : v \in values}

\* The sections of field-focused files: heading, directive lines to draw from.
FieldSections == {
    <<<<"#","#"," ","T","r","u","s","t"," ","R","e","q","u","i","r","e","m","e","n","t","s">>, Directives(<<"m","i","n","i","m","u","m","-","t","r","u","s","t","-","l","e","v","e","l">>, IntegerTexts)>>,
    <<<<"#","#"," ","A","l","l","o","w","e","d"," ","A","c","t","i","o","n","s">>,
      Directives(<<"r","e","a","d","-","c","o","n","t","e","n","t">>, BooleanTexts)
          \cup Directives(<<"m","a","k","e","-","p","u","r","c","h","a","s","e","s">>, {<<"y","e","s">>, <<"m","a","y","b","e">>})
          \cup Directives(<<"m","y","-","a","c","t","i","o","n">>, {<<"o","n">>, <<"n","o","p","e">>})>>,
    <<<<"#","#"," ","R","a","t","e"," ","L","i","m","i","t","s">>,
      Directives(<<"r","e","q","u","e","s","t","s","-","p","e","r","-","m","i","n","u","t","e">>, IntegerTexts)
          \cup Directives(<<"r","e","q","u","e","s","t","s","-","p","e","r","-","h","o","u","r">>, {<<"0">>, <<"-","5">>, <<"1","e","3">>})
          \cup Directives(<<"c","o","n","c","u","r","r","e","n","t","-","s","e","s","s","i","o","n","s">>, {<<"2">>, <<"x">>})>>,
    <<<<"#","#"," ","D","a","t","a"," ","H","a","n","d","l","i","n","g">>, Directives(<<"g","d","p","r","-","c","o","m","p","l","i","a","n","c","e">>, BooleanTexts)>>,
    <<<<"#","#"," ","A","g","e","n","t"," ","I","d","e","n","t","i","f","i","c","a","t","i","o","n">>,
      Directives(<<"r","e","q","u","i","r","e","-","a","g","e","n","t","-","h","e","a","d","e","r">>, BooleanTexts)
          \cup Directives(<<"r","e","q","u","i","r","e","-","d","i","s","c","l","o","s","u","r","e">>, {<<"t","r","u","e">>, <<"m","a","y","b","e">>})>> }

FieldFiles ==
    UNION {{Join(SiteHead \o <<fs[1]>> \o body, <<"\n">>) : body \in SeqsUpTo(fs[2], MaxDirectives)}
           : fs \in FieldSections}

Files == FreeFiles \cup FieldFiles

\* The files replayed on one parser instance.
ReplayFiles == {
    <<>>,
    Join(SiteHead, <<"\n">>),
    Join(NoSiteHead, <<"\n">>),
    Join(SiteHead \o <<<<"-"," ","f","o","o",":"," ","b">>>>, <<"\n">>),
    Join(SiteHead \o <<<<"#","#"," ","A","l","l","o","w","e","d"," ","A","c","t","i","o","n","s">>, <<"-"," ","r","e","a","d","-","c","o","n","t","e","n","t",":"," ","m","a","y","b","e">>>>, <<"\n">>),
    Join(SiteHead \o <<<<"#","#"," ","R","a","t","e"," ","L","i","m","i","t","s">>, <<"-"," ","r","e","q","u","e","s","t","s","-","p","e","r","-","m","i","n","u","t","e",":"," ","f","a","s","t">>>>, <<"\n">>),
    Join(SiteHead \o <<<<"#","#"," ","T","r","u","s","t"," ","R","e","q","u","i","r","e","m","e","n","t","s">>, <<"-"," ","m","i","n","i","m","u","m","-","t","r","u","s","t","-","l","e","v","e","l",":"," ","7">>>>, <<"\n">>),
    Join(SiteHead \o <<<<"#","#"," ","R","e","s","t","r","i","c","t","i","o","n","s">>, <<"-"," ","d","i","s","a","l","l","o","w","e","d","-","p","a","t","h","s",":"," ","a","d","m","i","n","/","*",","," ","i","n","t","e","r","n","a","l">>>>, <<"\n">>),
    Join(SiteHead \o <<<<"#","#"," ","D","a","t","a"," ","H","a","n","d","l","i","n","g">>, <<"-"," ","g","d","p","r","-","c","o","m","p","l","i","a","n","c","e",":"," ","m","a","y","b","e">>>>, <<"\n">>),
    Join(SiteHead \o <<<<"#","#"," ","A","g","e","n","t"," ","I","d","e","n","t","i","f","i","c","a","t","i","o","n">>, <<"-"," ","r","e","q","u","i","r","e","-","d","i","s","c","l","o","s","u","r","e",":"," ","2">>>>, <<"\n">>),
    Join(<<<<"#","#"," ","T","r","u","s","t"," ","R","e","q","u","i","r","e","m","e","n","t","s">>, <<"-"," ","m","i","n","i","m","u","m","-","t","r","u","s","t","-","l","e","v","e","l",":"," ","2">>>>, <<"\n">>) }

\* The files whose directives carry recognized, unrecognized and "x-" keys: one
\* known section each, with the directive lines to draw from.
KeySections == {
    <<<<<<"#","#"," ","I","d","e","n","t","i","t","y">>, <<"-"," ","s","i","t","e",":"," ","a">>>>,
      {<<"-"," ","c","o","n","t","a","c","t",":"," ","c">>, <<"-"," ","f","o","o",":"," ","b">>, <<"-"," ","x","-","f","o","o",":"," ","b">>, <<"-"," ","b","a","r",":"," ","d">>}>>,
    <<SiteHead \o <<<<"#","#"," ","T","r","u","s","t"," ","R","e","q","u","i","r","e","m","e","n","t","s">>>>,
      {<<"-"," ","m","i","n","i","m","u","m","-","t","r","u","s","t","-","l","e","v","e","l",":"," ","2">>, <<"-"," ","f","o","o",":"," ","b">>, <<"-"," ","x","-","f","o","o",":"," ","b">>}>>,
    <<SiteHead \o <<<<"#","#"," ","R","a","t","e"," ","L","i","m","i","t","s">>>>,
      {<<"-"," ","r","e","q","u","e","s","t","s","-","p","e","r","-","m","i","n","u","t","e",":"," ","3">>, <<"-"," ","f","o","o",":"," ","b">>, <<"-"," ","x","-","f","o","o",":"," ","b">>}>>,
    <<SiteHead \o <<<<"#","#"," ","D","a","t","a"," ","H","a","n","d","l","i","n","g">>>>,
      {<<"-"," ","g","d","p","r","-","c","o","m","p","l","i","a","n","c","e",":"," ","t","r","u","e">>, <<"-"," ","f","o","o",":"," ","b">>, <<"-"," ","x","-","f","o","o",":"," ","b">>}>>,
    <<SiteHead \o <<<<"#","#"," ","R","e","s","t","r","i","c","t","i","o","n","s">>>>,
      {<<"-"," ","d","i","s","a","l","l","o","w","e","d","-","p","a","t","h","s",":"," ","/","a">>, <<"-"," ","f","o","o",":"," ","b">>, <<"-"," ","x","-","f","o","o",":"," ","b">>}>>,
    <<SiteHead \o <<<<"#","#"," ","A","g","e","n","t"," ","I","d","e","n","t","i","f","i","c","a","t","i","o","n">>>>,
      {<<"-"," ","r","e","q","u","i","r","e","-","d","i","s","c","l","o","s","u","r","e",":"," ","t","r","u","e">>, <<"-"," ","f","o","o",":"," ","b">>, <<"-"," ","x","-","f","o","o",":"," ","b">>}>> }

KeyFiles ==
    UNION {{Join(ks[1] \o body, <<"\n">>) : body \in SeqsUpTo(ks[2], MaxDirectives)}
           : ks \in KeySections}

\* The section blocks of files that repeat a section heading.
SectionBlocks == {
    <<<<"#","#"," ","I","d","e","n","t","i","t","y">>, <<"-"," ","s","i","t","e",":"," ","a">>>>,
    <<<<"#","#"," ","i","d","e","n","t","i","t","y"," ">>, <<"-"," ","c","o","n","t","a","c","t",":"," ","c">>>>,
    <<<<"#","#"," "," ","I","D","E","N","T","I","T","Y">>, <<"-"," ","s","i","t","e",":"," ","b">>, <<"-"," ","c","o","n","t","a","c","t",":"," ","d">>>>,
    <<<<"#","#"," ","R","a","t","e"," ","L","i","m","i","t","s">>, <<"-"," ","r","e","q","u","e","s","t","s","-","p","e","r","-","m","i","n","u","t","e",":"," ","3">>>>,
    <<<<"#","#"," ","r","a","t","e"," ","l","i","m","i","t","s">>, <<"-"," ","r","e","q","u","e","s","t","s","-","p","e","r","-","h","o","u","r",":"," ","4">>>> }

RECURSIVE Concat(_)
Concat(blocks) == IF blocks = <<>> THEN <<>> ELSE Head(blocks) \o Concat(Tail(blocks))

DuplicateFiles ==
    {Join(Concat(blocks), <<"\n">>) : blocks \in SeqsUpTo(SectionBlocks, MaxSections)}

\* The lines of an Identity section that are, or come close to being, directives.
DirectiveLines == {
    <<"-"," ","s","i","t","e",":"," ","a">>, <<" ","-"," "," ","S","i","t","e"," ",":"," "," ","h",":","8","0"," ">>, <<"-"," ","c","o","n","t","a","c","t",":"," ","h","t","t","p",":","/","/","c",":","1">>, <<"-"," ","s","i","t","e">>, <<"-"," ",":"," ","v">>,
    <<"#"," ","s","i","t","e",":"," ","c">>, <<"s","i","t","e",":"," ","p">>, <<"-","s","i","t","e",":"," ","q">>, <<>>, <<"*"," ","s","i","t","e",":"," ","s">>, <<"-"," ","c","o","n","t","a","c","t",":">> }

\* What precedes the first section heading.
Preambles == {<<>>, <<<<"-"," ","s","i","t","e",":"," ","p","r","e">>, <<"f","r","e","e"," ","t","e","x","t">>>>}

DirectiveFiles ==
    {Join(preamble \o <<<<"#","#"," ","I","d","e","n","t","i","t","y">>>> \o body, <<"\n">>)
        : preamble \in Preambles, body \in SeqsUpTo(DirectiveLines, MaxLines)}

\* The directives of a Restrictions section.
PathLines == {
    <<"-"," ","d","i","s","a","l","l","o","w","e","d","-","p","a","t","h","s",":"," ","a","d","m","i","n","/","*",","," ","i","n","t","e","r","n","a","l">>, <<"-"," ","d","i","s","a","l","l","o","w","e","d","-","p","a","t","h","s",":"," ","/","a",",",","," ","/","b"," ",",">>,
    <<"-"," ","r","e","q","u","i","r","e","-","h","u","m","a","n","-","a","p","p","r","o","v","a","l",":"," ","x">>, <<"-"," ","r","e","q","u","i","r","e","-","h","u","m","a","n","-","a","p","p","r","o","v","a","l",":"," ","/","c","h","e","c","k","o","u","t","/","*">>,
    <<"-"," ","r","e","a","d","-","o","n","l","y","-","p","a","t","h","s",":"," ","/","b","l","o","g","/","*",","," ","b","l","o","g">>, <<"-"," ","r","e","a","d","-","o","n","l","y","-","p","a","t","h","s",":">> }

PathFiles ==
    {Join(SiteHead \o <<<<"#","#"," ","R","e","s","t","r","i","c","t","i","o","n","s">>>> \o body, <<"\n">>)
        : body \in SeqsUpTo(PathLines, MaxDirectives)}

DirectiveStudyFiles == KeyFiles \cup DuplicateFiles \cup DirectiveFiles \cup PathFiles

-----------------------------------------------------------------------------
(* The state machine.                                                      *)

NoOutcome == [success |-> FALSE, policy |-> None, errors |-> <<>>, warnings |-> <<>>]

Init ==
    /\ content = <<>>
    /\ sections = <<>>
    /\ outcome = NoOutcome
    /\ log = <<>>
    /\ fetchCall = None
    /\ pc = "idle"
    /\ attempts = <<>>
    /\ elapsed = 0
    /\ settled = None
    /\ cache = <<>>
    /\ clock = 0
    /\ ticks = 0
    /\ cacheCalls = <<>>
    /\ validation = None
    /\ diagnostics = None
    /\ disk = <<>>
    /\ initRun = None

\* parser.parse(text), the first call on a parser instance (calls that follow one
\* another on the same instance are ParseOnInstance's)
ParseCall ==
    /\ log = <<>>
    /\ \E text \in Files :
        /\ content' = text
        /\ sections' = SectionsOf(text)
        /\ outcome' = Parse(text)
        /\ log' = Append(log, [content |-> text, outcome |-> outcome'])
    /\ UNCHANGED <<fetchVars, cacheVars, toolVars>>

\* parser.parse(text) on a parser instance whose earlier calls are recorded
ParseOnInstance ==
    /\ Len(log) < MaxCalls
    /\ \E text \in ReplayFiles :
        /\ content' = text
        /\ sections' = SectionsOf(text)
        /\ outcome' = Parse(text)
        /\ log' = Append(log, [content |-> text, outcome |-> outcome'])
    /\ UNCHANGED <<fetchVars, cacheVars, toolVars>>

Next == ParseCall

Spec == Init /\ [][Next]_vars

NextOnInstance == ParseOnInstance

SpecInstance == Init /\ [][NextOnInstance]_vars

\* parser.parse(text) on the files that exercise headings, directive lines, keys
\* and path lists
ParseDirectives ==
    /\ log = <<>>
    /\ \E text \in DirectiveStudyFiles :
        /\ content' = text
        /\ sections' = SectionsOf(text)
        /\ outcome' = Parse(text)
        /\ log' = Append(log, [content |-> text, outcome |-> outcome'])
    /\ UNCHANGED <<fetchVars, cacheVars, toolVars>>

NextDirectives == ParseDirectives

SpecDirectives == Init /\ [][NextDirectives]_vars

-----------------------------------------------------------------------------
(* fetchPolicy: discovery of a policy file over the network.  A response   *)
(* is what fetch resolved with (final URL, status, Content-Length header); *)
(* a body is the text response.text() resolved with.                       *)

MAX_FILE_SIZE_BYTES == 1048576

FETCH_TIMEOUT_MS == 10000

\* baseUrl.replace(/\/+$/, '')
StripTrailingSlashes(s) ==
    SubSeq(s, 1, CHOOSE i \in 0..Len(s) :
                    /\ \A j \in (i + 1)..Len(s) : s[j] = "/"
                    /\ i > 0 => s[i] # "/")

\* url.startsWith('https://')
IsHttps(url) == StartsWith(url, <<"h","t","t","p","s",":","/","/">>)

\* the HTTPS check of the base URL left out
RejectsBaseUrlNever(normalizedBase, enforceHttps) == FALSE

\* `enforceHttps && !normalizedBase.startsWith('https://')`
RejectsBaseUrl(normalizedBase, enforceHttps) == enforceHttps /\ ~IsHttps(normalizedBase)

\* candidateUrls with the well-known location tried first
CandidateUrlsFallbackFirst(normalizedBase) ==
    <<normalizedBase \o <<"/",".","w","e","l","l","-","k","n","o","w","n","/","a","g","e","n","t","s",".","m","d">>, normalizedBase \o <<"/","A","G","E","N","T","S",".","m","d">>>>

\* candidateUrls
CandidateUrls(normalizedBase) ==
    <<normalizedBase \o <<"/","A","G","E","N","T","S",".","m","d">>, normalizedBase \o <<"/",".","w","e","l","l","-","k","n","o","w","n","/","a","g","e","n","t","s",".","m","d">>>>

\* `new FetchPolicyError(...)`, its message quoting the base URL received
FetchPolicyError(baseUrl) == [name |-> "FetchPolicyError", received |-> baseUrl]

\* What the pending fetch or text promise rejects with once controller.abort() ran.
AbortError == [name |-> "AbortError", received |-> <<>>]

\* Network-level failures fetch or response.text() may reject with.
NetworkErrors ==
    {[name |-> "TypeError", received |-> <<"f","e","t","c","h"," ","f","a","i","l","e","d">>],
     [name |-> "Error", received |-> <<"E","C","O","N","N","R","E","S","E","T">>]}

\* A settled promise of fetchPolicy; the value None is null.
Resolved(value) == [kind |-> "resolved", value |-> value, error |-> None]

Rejected(error) == [kind |-> "rejected", value |-> None, error |-> Some(error)]

OkUnlessNotFound(status) == status >= 200 /\ status <= 599

\* response.ok
Ok(status) == status >= 200 /\ status <= 299

\* `contentLength !== null && parseInt(contentLength, 10) > MAX_FILE_SIZE_BYTES`;
\* NaN compares false
DeclaredTooLarge(contentLength) ==
    /\ contentLength # None
    /\ ParseInt(contentLength[1]) # None
    /\ ParseInt(contentLength[1])[1] > MAX_FILE_SIZE_BYTES

\* AcceptsResponse without the check of the final URL
AcceptsResponseTrustingRedirects(response, enforceHttps) ==
    /\ response.status # 404
    /\ Ok(response.status)
    /\ ~DeclaredTooLarge(response.contentLength)

\* attemptFetch between the response and response.text(): TRUE when it goes on to
\* read the body, FALSE when it returns null
AcceptsResponse(response, enforceHttps) ==
    /\ ~(enforceHttps /\ ~IsHttps(response.url))
    /\ response.status # 404
    /\ Ok(response.status)
    /\ ~DeclaredTooLarge(response.contentLength)

\* The characters of the model that UTF-8 encodes in two bytes, written as code points.
TwoByteChars == {"U+00E9"}

\* new TextEncoder().encode(text).length: the body is body.text followed by
\* body.trailingNewlines line feeds, which parse reads as empty lines and skips
ByteLength(body) ==
    Len(body.text) + Cardinality({i \in DOMAIN body.text : body.text[i] \in TwoByteChars})
        + body.trailingNewlines

AcceptsBodyBelowLimit(body) == ~(ByteLength(body) >= MAX_FILE_SIZE_BYTES)

\* attemptFetch after response.text(): TRUE when it returns the text
AcceptsBody(body) == ~(ByteLength(body) > MAX_FILE_SIZE_BYTES)

\* a catch block that rethrows the AbortError too
CatchesNothing(error) == FALSE

CatchesEverything(error) == TRUE

\* `error instanceof Error && error.name === 'AbortError'`
Catches(error) == error.name = "AbortError"

\* attemptFetch as it starts: the timer set, fetch called
NewAttempt(url) ==
    [url |-> url, timer |-> TRUE, aborted |-> FALSE, response |-> None, body |-> None,
     ended |-> "pending", error |-> None]

\* attemptFetch as it ends; `finally` clears the timer
Ended(attempt, how, error) ==
    [attempt EXCEPT !.timer = FALSE, !.ended = how, !.error = error]

\* The running attemptFetch call.
Current == attempts[Len(attempts)]

\* fetchPolicy's locals
NormalizedBase == StripTrailingSlashes(fetchCall[1].baseUrl)

EnforceHttps == OrDefault(fetchCall[1].options.enforceHttps, TRUE)

TimeoutMs == OrDefault(fetchCall[1].options.timeoutMs, FETCH_TIMEOUT_MS)

\* What the network may answer and what callers may pass.
BaseUrls == {<<"h","t","t","p","s",":","/","/","a">>, <<"h","t","t","p","s",":","/","/","a","/","/">>, <<"h","t","t","p",":","/","/","a">>, <<"H","T","T","P","S",":","/","/","a">>}

FetchOptions == [enforceHttps : {None, Some(FALSE)}, timeoutMs : {None, Some(TickMs)}]

Statuses == {200, 404, 500}

ContentLengths == {None, Some(<<"1","0","4","8","5","7","6">>), Some(<<"1","0","4","8","5","7","7">>)}

\* response.url: the URL requested, or the plain-HTTP URL a redirect led to
FinalUrls(url) == {url, <<"h","t","t","p",":","/","/","a","/","A","G","E","N","T","S",".","m","d">>}

Responses(url) == [url : FinalUrls(url), status : Statuses, contentLength : ContentLengths]

BodyTexts ==
    {Join(SiteHead, <<"\n">>),
     Join(<<<<"#"," ","A","G","E","N","T","S",".","m","d">>, <<"#","#"," ","I","d","e","n","t","i","t","y">>, <<"-"," ","s","i","t","e",":"," ","c","a","f">> \o <<"U+00E9">>>>, <<"\n">>),
     Join(<<<<"#","#"," ","T","r","u","s","t"," ","R","e","q","u","i","r","e","m","e","n","t","s">>, <<"-"," ","m","i","n","i","m","u","m","-","t","r","u","s","t","-","l","e","v","e","l",":"," ","2">>>>, <<"\n">>)}

\* Each text as it is, and padded to the size limit and to one byte more.
Bodies ==
    UNION {{[text |-> t, trailingNewlines |-> n] :
                n \in {0,
                       MAX_FILE_SIZE_BYTES - ByteLength([text |-> t, trailingNewlines |-> 0]),
                       MAX_FILE_SIZE_BYTES + 1 - ByteLength([text |-> t, trailingNewlines |-> 0])}} :
            t \in BodyTexts}

\* fetchPolicy's loop once attemptFetch has returned null: the next candidate, or
\* `return null` after the last
ContinueAfterNull(attempt) ==
    /\ IF Len(attempts) < Len(CandidateUrls(NormalizedBase))
       THEN /\ attempts' = Append([attempts EXCEPT ![Len(attempts)] = attempt],
                                  NewAttempt(CandidateUrls(NormalizedBase)[Len(attempts) + 1]))
            /\ pc' = "fetch"
            /\ settled' = settled
       ELSE /\ attempts' = [attempts EXCEPT ![Len(attempts)] = attempt]
            /\ pc' = "done"
            /\ settled' = Some(Resolved(None))
    /\ elapsed' = 0
    /\ UNCHANGED <<fetchCall, parseVars, cacheVars, toolVars>>

\* fetchPolicy once attemptFetch has returned the text: a new parser parses it
ReturnParsed(attempt, text) ==
    /\ attempts' = [attempts EXCEPT ![Len(attempts)] = attempt]
    /\ content' = text
    /\ sections' = SectionsOf(text)
    /\ outcome' = Parse(text)
    /\ log' = <<[content |-> text, outcome |-> outcome']>>
    /\ pc' = "done"
    /\ settled' = Some(Resolved(Some(outcome')))
    /\ UNCHANGED <<fetchCall, elapsed, cacheVars, toolVars>>

\* fetchPolicy once attemptFetch has thrown: the await rethrows
Rethrow(attempt, error) ==
    /\ attempts' = [attempts EXCEPT ![Len(attempts)] = attempt]
    /\ pc' = "done"
    /\ settled' = Some(Rejected(error))
    /\ UNCHANGED <<fetchCall, elapsed, parseVars, cacheVars, toolVars>>

\* the catch block of attemptFetch
Catch(attempt, error) ==
    IF Catches(error) THEN ContinueAfterNull(Ended(attempt, "null", Some(error)))
    ELSE Rethrow(Ended(attempt, "throw", Some(error)), error)

\* fetchPolicy(baseUrl, options) up to its first await
FetchPolicy ==
    /\ pc = "idle"
    /\ \E baseUrl \in BaseUrls, options \in FetchOptions :
        /\ fetchCall' = Some([baseUrl |-> baseUrl, options |-> options])
        /\ IF RejectsBaseUrl(StripTrailingSlashes(baseUrl), OrDefault(options.enforceHttps, TRUE))
           THEN /\ attempts' = attempts
                /\ pc' = "done"
                /\ settled' = Some(Rejected(FetchPolicyError(baseUrl)))
           ELSE /\ attempts' = <<NewAttempt(CandidateUrls(StripTrailingSlashes(baseUrl))[1])>>
                /\ pc' = "fetch"
                /\ settled' = settled
    /\ elapsed' = 0
    /\ UNCHANGED <<parseVars, cacheVars, toolVars>>

\* fetch resolves with a response: attemptFetch runs up to `await response.text()`
FetchResolves ==
    /\ pc = "fetch"
    /\ \E response \in Responses(Current.url) :
        IF AcceptsResponse(response, EnforceHttps)
        THEN /\ attempts' = [attempts EXCEPT ![Len(attempts)].response = Some(response)]
             /\ pc' = "text"
             /\ UNCHANGED <<fetchCall, elapsed, settled, parseVars, cacheVars, toolVars>>
        ELSE ContinueAfterNull(Ended([Current EXCEPT !.response = Some(response)], "null", None))

\* fetch rejects with a network error
FetchRejects ==
    /\ pc = "fetch"
    /\ \E error \in NetworkErrors : Catch(Current, error)

\* response.text() resolves: attemptFetch measures the body and returns
TextResolves ==
    /\ pc = "text"
    /\ \E body \in Bodies :
        IF AcceptsBody(body)
        THEN ReturnParsed(Ended([Current EXCEPT !.body = Some(body)], "text", None), body.text)
        ELSE ContinueAfterNull(Ended([Current EXCEPT !.body = Some(body)], "null", None))

\* response.text() rejects with a network error
TextRejects ==
    /\ pc = "text"
    /\ \E error \in NetworkErrors : Catch(Current, error)

\* the timer callback: controller.abort() makes the pending await reject with AbortError
Timeout ==
    /\ pc \in {"fetch", "text"}
    /\ Current.timer
    /\ elapsed >= TimeoutMs
    /\ Catch([Current EXCEPT !.aborted = TRUE], AbortError)

\* time passes while an attempt is pending; a timer that is due runs first
Tick ==
    /\ pc \in {"fetch", "text"}
    /\ Current.timer
    /\ elapsed < TimeoutMs
    /\ elapsed' = IF elapsed + TickMs > TimeoutMs THEN TimeoutMs ELSE elapsed + TickMs
    /\ UNCHANGED <<fetchCall, pc, attempts, settled, parseVars, cacheVars, toolVars>>

NextFetch ==
    \/ FetchPolicy
    \/ FetchResolves
    \/ FetchRejects
    \/ TextResolves
    \/ TextRejects
    \/ Timeout
    \/ Tick

SpecFetch == Init /\ [][NextFetch]_vars

\* The event loop runs a due timer callback, and time does not stand still.
FairSpecFetch == SpecFetch /\ WF_vars(Tick) /\ WF_vars(Timeout)

-----------------------------------------------------------------------------
(* PolicyCache of the agent developers' guide: cache maps a base URL to the *)
(* entry {policy, fetchedAt}; cacheCalls are the getPolicy calls made, each *)
(* with the entry it read, what its fetchPolicy call settled with if it     *)
(* made one, and what it settled with itself.                              *)

maxAgeMs == 24 * 60 * 60 * 1000

HourMs == 60 * 60 * 1000

\* this.cache.get(baseUrl); undefined is None
CacheGet(baseUrl) == IF baseUrl \in DOMAIN cache THEN Some(cache[baseUrl]) ELSE None

\* `cached && Date.now() - cached.fetchedAt < this.maxAgeMs`
CacheHit(cached, now) == cached # None /\ now - cached[1].fetchedAt < maxAgeMs

\* this.cache.set(baseUrl, entry)
CacheSet(baseUrl, entry) ==
    [b \in DOMAIN cache \cup {baseUrl} |-> IF b = baseUrl THEN entry ELSE cache[b]]

ClockSteps == {HourMs, 23 * HourMs}

\* The base URLs callers ask for.
Origins == {<<"h","t","t","p","s",":","/","/","a">>, <<"h","t","t","p","s",":","/","/","b">>}

\* What fetchPolicy settles with: a ParseResult, of a failed parse too, or null; or
\* a network error.
FetchedValues == {None} \cup {Some(Parse(text)) : text \in BodyTexts}

\* A getPolicy call once it has settled.
Settle(call, promise) == [call EXCEPT !.pc = "done", !.settled = Some(promise), !.settledAt = clock]

\* getPolicy(baseUrl) up to its return from the cache or its `await fetchPolicy(baseUrl)`
GetPolicy ==
    /\ Len(cacheCalls) < MaxGetPolicyCalls
    /\ \E baseUrl \in Origins :
        LET call == [baseUrl |-> baseUrl, startedAt |-> clock, cached |-> CacheGet(baseUrl),
                     pc |-> "start", fetched |-> None, settled |-> None, settledAt |-> clock]
        IN  cacheCalls' =
                Append(cacheCalls,
                       IF CacheHit(call.cached, clock)
                       THEN Settle(call, Resolved(Some(call.cached[1].policy)))
                       ELSE [call EXCEPT !.pc = "await"])
    /\ UNCHANGED <<cache, clock, ticks, parseVars, fetchVars, toolVars>>

\* fetchPolicy resolves: getPolicy stores a policy that is not null and returns it
FetchPolicyResolves ==
    \E i \in DOMAIN cacheCalls :
        /\ cacheCalls[i].pc = "await"
        /\ \E value \in FetchedValues :
            /\ cache' = IF value # None
                        THEN CacheSet(cacheCalls[i].baseUrl,
                                      [policy |-> value[1], fetchedAt |-> clock])
                        ELSE cache
            /\ cacheCalls' = [cacheCalls EXCEPT ![i] =
                                Settle([@ EXCEPT !.fetched = Some(Resolved(value))],
                                       Resolved(value))]
        /\ UNCHANGED <<clock, ticks, parseVars, fetchVars, toolVars>>

\* fetchPolicy rejects: the await in getPolicy rethrows
FetchPolicyRejects ==
    \E i \in DOMAIN cacheCalls :
        /\ cacheCalls[i].pc = "await"
        /\ \E error \in NetworkErrors :
            cacheCalls' = [cacheCalls EXCEPT ![i] =
                             Settle([@ EXCEPT !.fetched = Some(Rejected(error))],
                                    Rejected(error))]
        /\ UNCHANGED <<cache, clock, ticks, parseVars, fetchVars, toolVars>>

\* Date.now() advances, by an hour or by most of a day
ClockTick ==
    /\ ticks < MaxClockTicks
    /\ \E step \in ClockSteps : clock' = clock + step
    /\ ticks' = ticks + 1
    /\ UNCHANGED <<cache, cacheCalls, parseVars, fetchVars, toolVars>>

NextCache ==
    \/ GetPolicy
    \/ FetchPolicyResolves
    \/ FetchPolicyRejects
    \/ ClockTick

SpecCache == Init /\ [][NextCache]_vars

-----------------------------------------------------------------------------
(* validate: the semantic checks on an AgentsPolicy.  A number of the      *)
(* policy is [whole, tenths, nan]: 1.5 is whole 1 and tenths 5.  An error   *)
(* is the message template `text` with the field and the value it quotes.  *)
(* Every section of an AgentsPolicy is an object and every field has the   *)
(* type the interface declares, so the `if (policy.section)` tests hold    *)
(* and the typeof and Array.isArray tests find nothing.                    *)

\* An integer as a number of the policy.
Num(n) == [whole |-> n, tenths |-> 0, nan |-> FALSE]

\* Number.isInteger
IsInteger(number) == ~number.nan /\ number.tenths = 0

\* `number < bound`; NaN compares false
Below(number, bound) == ~number.nan /\ number.whole < bound

\* `number > bound`; NaN compares false
Above(number, bound) ==
    ~number.nan /\ (number.whole > bound \/ (number.whole = bound /\ number.tenths > 0))

\* String.prototype.includes, of a search string that is not empty
Includes(s, search) ==
    \E i \in 1..(Len(s) - Len(search) + 1) : SubSeq(s, i, i + Len(search) - 1) = search

\* `errors.push(...)` under a condition
PushIf(condition, errors, text, field, value) ==
    IF condition THEN Append(errors, [text |-> text, field |-> field, value |-> value])
    ELSE errors

\* \d{n} at position i
DigitsAt(s, i, n) == i + n - 1 <= Len(s) /\ \A j \in i..(i + n - 1) : s[j] \in Digits

\* the literal c at position i
CharAt(s, i, c) == i <= Len(s) /\ s[i] = c

\* (Z|[+-]\d{2}:\d{2})?$ from position i on
MatchesZone(s, i) ==
    \/ i = Len(s) + 1
    \/ i = Len(s) /\ s[i] = "Z"
    \/ /\ i + 5 = Len(s)
       /\ s[i] \in {"+", "-"}
       /\ DigitsAt(s, i + 1, 2) /\ CharAt(s, i + 3, ":") /\ DigitsAt(s, i + 4, 2)

\* (\.\d+)? from position i on, then the zone
MatchesFractionAndZone(s, i) ==
    \/ MatchesZone(s, i)
    \/ /\ CharAt(s, i, ".")
       /\ DigitsEnd(s, i + 1) > i + 1
       /\ \E k \in (i + 2)..DigitsEnd(s, i + 1) : MatchesZone(s, k)

\* /^\d{4}-\d{2}-\d{2}(T\d{2}:\d{2}:\d{2}(\.\d+)?(Z|[+-]\d{2}:\d{2})?)?$/.test(s)
IsoDatePattern(s) ==
    /\ DigitsAt(s, 1, 4) /\ CharAt(s, 5, "-")
    /\ DigitsAt(s, 6, 2) /\ CharAt(s, 8, "-")
    /\ DigitsAt(s, 9, 2)
    /\ \/ Len(s) = 10
       \/ /\ CharAt(s, 11, "T")
          /\ DigitsAt(s, 12, 2) /\ CharAt(s, 14, ":")
          /\ DigitsAt(s, 15, 2) /\ CharAt(s, 17, ":")
          /\ DigitsAt(s, 18, 2)
          /\ MatchesFractionAndZone(s, 20)

ValidateSiteEmptyOnly(site, errors) ==
    PushIf(site = <<>> \/ Len(Trim(site)) = 0, errors,
           "Identity.site is required and must not be empty.", "site", <<>>)

\* the checks on identity.site
ValidateSite(site, errors) ==
    IF site = <<>> \/ Len(Trim(site)) = 0
    THEN PushIf(TRUE, errors, "Identity.site is required and must not be empty.", "site", <<>>)
    ELSE PushIf(Includes(site, <<" ">>),
                PushIf(Includes(site, <<":","/","/">>), errors,
                       "Identity.site must be a domain name only", "site", site),
                "Identity.site must not contain spaces.", "site", site)

\* the Identity block of validate
ValidateIdentity(identity, errors) ==
    PushIf(identity.lastUpdated # None /\ ~IsoDatePattern(OrDefault(identity.lastUpdated, <<>>)),
           ValidateSite(identity.site, errors),
           "Identity.lastUpdated is not a valid ISO 8601 date.", "lastUpdated",
           identity.lastUpdated)

\* The loop over authenticationMethods finds a string that is empty once trimmed.
HasEmptyMethod(methods) ==
    methods # None /\ \E i \in 1..Len(methods[1]) : Len(Trim(methods[1][i])) = 0

\* the Trust requirements block of validate
ValidateTrustRequirements(trust, errors) ==
    PushIf(HasEmptyMethod(trust.authenticationMethods),
           PushIf(trust.authentication \notin AuthenticationValues,
                  PushIf(~IsInteger(trust.minimumTrustLevel)
                            \/ Below(trust.minimumTrustLevel, 0)
                            \/ Above(trust.minimumTrustLevel, 5),
                         errors,
                         "TrustRequirements.minimumTrustLevel must be an integer between 0 and 5.",
                         "minimumTrustLevel", trust.minimumTrustLevel),
                  "TrustRequirements.authentication must be one of: required, optional, none.",
                  "authentication", trust.authentication),
           "TrustRequirements.authenticationMethods must contain non-empty strings.",
           "authenticationMethods", <<>>)

ValidateRateLimitPositive(value, field, errors) ==
    PushIf(value # None /\ (~IsInteger(OrDefault(value, Num(0)))
                               \/ Below(OrDefault(value, Num(0)), 1)),
           errors, "RateLimits field must be a non-negative integer.", field, value)

\* one turn of the loop over rateLimitFields
ValidateRateLimit(value, field, errors) ==
    PushIf(value # None /\ (~IsInteger(OrDefault(value, Num(0)))
                               \/ Below(OrDefault(value, Num(0)), 0)),
           errors, "RateLimits field must be a non-negative integer.", field, value)

\* the Rate limits block of validate
ValidateRateLimits(rateLimits, errors) ==
    ValidateRateLimit(rateLimits.concurrentSessions, "concurrentSessions",
        ValidateRateLimit(rateLimits.requestsPerHour, "requestsPerHour",
            ValidateRateLimit(rateLimits.requestsPerMinute, "requestsPerMinute", errors)))

\* one enumerated field of the Data handling block
ValidateEnum(value, valid, field, errors) ==
    PushIf(value # None /\ OrDefault(value, <<>>) \notin valid, errors,
           "DataHandling field must be one of its values.", field, value)

\* the Data handling block of validate
ValidateDataHandling(dataHandling, errors) ==
    ValidateEnum(dataHandling.thirdPartySharing, ValidSharingValues, "thirdPartySharing",
        ValidateEnum(dataHandling.dataRetention, ValidRetentionValues, "dataRetention",
            ValidateEnum(dataHandling.personalDataCollection, ValidCollectionValues,
                         "personalDataCollection", errors)))

\* the loop over the paths of one field of restrictions
RECURSIVE ValidatePaths(_, _, _, _)
ValidatePaths(paths, i, field, errors) ==
    IF i > Len(paths) THEN errors
    ELSE ValidatePaths(paths, i + 1, field,
                       PushIf(~StartsWith(paths[i], <<"/">>), errors,
                              "Restrictions path must start with /.", field, paths[i]))

\* the Restrictions block of validate
ValidateRestrictions(restrictions, errors) ==
    ValidatePaths(restrictions.readOnlyPaths, 1, "readOnlyPaths",
        ValidatePaths(restrictions.requireHumanApproval, 1, "requireHumanApproval",
            ValidatePaths(restrictions.disallowedPaths, 1, "disallowedPaths", errors)))

\* the Agent identification block of validate
ValidateAgentIdentification(agentIdentification, errors) ==
    PushIf(agentIdentification.agentHeaderName # None
              /\ Len(Trim(OrDefault(agentIdentification.agentHeaderName, <<>>))) = 0,
           errors,
           "AgentIdentification.agentHeaderName must be a non-empty string if specified.",
           "agentHeaderName", agentIdentification.agentHeaderName)

\* the errors of validate, the blocks in the order of the code
ValidationErrors(policy) ==
    ValidateAgentIdentification(policy.agentIdentification,
        ValidateRestrictions(policy.restrictions,
            ValidateDataHandling(policy.dataHandling,
                ValidateRateLimits(policy.rateLimits,
                    ValidateTrustRequirements(policy.trustRequirements,
                        ValidateIdentity(policy.identity, <<>>))))))

\* `{ valid: errors.length === 0, errors }`
ValidationResult(errors) == [valid |-> Len(errors) = 0, errors |-> errors]

\* validate
Validate(policy) == ValidationResult(ValidationErrors(policy))

\* The object parse returned as validate receives it: parseInt's integers are
\* numbers of the policy.
PolicyObject(policy) ==
    [policy EXCEPT
        !.trustRequirements.minimumTrustLevel = Num(@),
        !.rateLimits.requestsPerMinute = IF @ = None THEN None ELSE Some(Num(@[1])),
        !.rateLimits.requestsPerHour = IF @ = None THEN None ELSE Some(Num(@[1])),
        !.rateLimits.concurrentSessions = IF @ = None THEN None ELSE Some(Num(@[1]))]

\* makeValidPolicy of the validator's tests
ValidPolicy ==
    [identity |-> [site |-> <<"e","x","a","m","p","l","e",".","c","o","m">>, contact |-> Some(<<"a","i","@","e","x","a","m","p","l","e",".","c","o","m">>),
                   lastUpdated |-> Some(<<"2","0","2","6","-","0","3","-","1","5">>), specVersion |-> None],
     trustRequirements |-> [minimumTrustLevel |-> Num(2), authentication |-> <<"r","e","q","u","i","r","e","d">>,
                            authenticationMethods |-> Some(<<<<"o","a","u","t","h","2">>, <<"a","p","i","-","k","e","y">>>>)],
     allowedActions |-> ActionDefaults,
     rateLimits |-> [requestsPerMinute |-> Some(Num(30)), requestsPerHour |-> Some(Num(500)),
                     concurrentSessions |-> Some(Num(3))],
     dataHandling |-> [personalDataCollection |-> Some(<<"m","i","n","i","m","a","l">>),
                       dataRetention |-> Some(<<"s","e","s","s","i","o","n","-","o","n","l","y">>),
                       thirdPartySharing |-> Some(<<"n","o","n","e">>), gdprCompliance |-> Some(TRUE)],
     restrictions |-> [disallowedPaths |-> <<<<"/","a","d","m","i","n","/","*">>>>,
                       requireHumanApproval |-> <<<<"/","c","h","e","c","k","o","u","t","/","*">>>>,
                       readOnlyPaths |-> <<<<"/","b","l","o","g","/","*">>>>],
     agentIdentification |-> [requireAgentHeader |-> TRUE,
                              agentHeaderName |-> Some(<<"X","-","A","g","e","n","t","-","I","d","e","n","t","i","t","y">>),
                              requireDisclosure |-> TRUE]]

\* The sections validate is called with.
Sites == {<<>>, <<"a",".","c","o","m">>, <<"a"," ","b",".","c","o","m">>, <<"h","t","t","p","s",":","/","/","a",".","c","o","m">>, <<"h","t","t","p","s",":","/","/","a"," ","b">>, <<" ">>, <<"\t">>,
          <<"a","\t","b",".","c","o","m">>, <<"a",".","c","o","m","\n">>}

LastUpdateds ==
    {None, Some(<<"2","0","2","6","-","0","3","-","1","5">>), Some(<<"2","0","2","6","-","0","3","-","1","5","T","1","0",":","3","0",":","0","0","Z">>), Some(<<"2","0","2","6","-","0","3","-","1","5","T","1","0",":","3","0",":","0","0">>),
     Some(<<"2","0","2","6","-","0","3","-","1","5","T","1","0",":","3","0",":","0","0",".","2","5","+","0","1",":","0","0">>), Some(<<"2","0","2","6","-","0","3","-","1","5","T","1","0",":","3","0",":","0","0","-","0","8",":","0","0">>),
     Some(<<"M","a","r","c","h"," ","1","5",","," ","2","0","2","6">>), Some(<<"2","0","2","6","-","3","-","1","5">>), Some(<<"2","0","2","6","-","0","3","-","1","5","T","1","0",":","3","0">>),
     Some(<<"2","0","2","6","-","0","3","-","1","5"," ">>), Some(<<"2","0","2","6","-","0","3","-","1","5","T","1","0",":","3","0",":","0","0",".","Z">>), Some(<<"2","0","2","6","-","0","3","-","1","5","T","1","0",":","3","0",":","0","0","+","0","1","0","0">>),
     Some(<<"2","0","2","6","-","0","3","-","1","5","t","1","0",":","3","0",":","0","0","Z">>), Some(<<>>)}

Identities ==
    {[ValidPolicy.identity EXCEPT !.site = site, !.lastUpdated = lastUpdated] :
        site \in Sites, lastUpdated \in LastUpdateds}

Numbers ==
    {Num(n) : n \in {-1, 0, 1, 5, 6}}
        \cup {[whole |-> 1, tenths |-> 5, nan |-> FALSE], [whole |-> 0, tenths |-> 0, nan |-> TRUE]}

TrustSections ==
    {[minimumTrustLevel |-> level, authentication |-> authentication,
      authenticationMethods |-> methods] :
        level \in Numbers,
        authentication \in {<<"n","o","n","e">>, <<"o","p","t","i","o","n","a","l">>, <<"r","e","q","u","i","r","e","d">>, <<"s","o","m","e","t","i","m","e","s">>, <<"N","o","n","e">>},
        methods \in {None, Some(<<>>), Some(<<<<"o","a","u","t","h","2">>>>), Some(<<<<"o","a","u","t","h","2">>, <<" ">>>>)}}

RateLimitValues == {None} \cup {Some(number) : number \in Numbers}

RateLimitSections ==
    [requestsPerMinute : RateLimitValues, requestsPerHour : {None, Some(Num(0)), Some(Num(-1))},
     concurrentSessions : {None, Some(Num(1)), Some([whole |-> 1, tenths |-> 5, nan |-> FALSE])}]

DataHandlingSections ==
    [personalDataCollection : {None, Some(<<"m","i","n","i","m","a","l">>), Some(<<"a","l","l">>)},
     dataRetention : {None, Some(<<"3","0","-","d","a","y","s">>), Some(<<"f","o","r","e","v","e","r">>)},
     thirdPartySharing : {None, Some(<<"u","n","r","e","s","t","r","i","c","t","e","d">>), Some(<<"s","o","l","d">>)},
     gdprCompliance : {None, Some(TRUE), Some(FALSE)}]

PathLists == {<<>>, <<<<"/","a","d","m","i","n","/","*">>>>, <<<<"a","d","m","i","n","/","*">>, <<"i","n","t","e","r","n","a","l">>>>, <<<<"/","a">>, <<"b">>, <<"/","c">>>>}

RestrictionSections ==
    [disallowedPaths : PathLists, requireHumanApproval : PathLists, readOnlyPaths : PathLists]

AgentIdentificationSections ==
    [requireAgentHeader : BOOLEAN, agentHeaderName : {None, Some(<<"X","-","A","g","e","n","t">>), Some(<<" ">>)},
     requireDisclosure : {TRUE}]

\* makeValidPolicy with one section overridden, or with every section at once.
Policies ==
    {[ValidPolicy EXCEPT !.identity = s] : s \in Identities}
        \cup {[ValidPolicy EXCEPT !.trustRequirements = s] : s \in TrustSections}
        \cup {[ValidPolicy EXCEPT !.rateLimits = s] : s \in RateLimitSections}
        \cup {[ValidPolicy EXCEPT !.dataHandling = s] : s \in DataHandlingSections}
        \cup {[ValidPolicy EXCEPT !.restrictions = s] : s \in RestrictionSections}
        \cup {[ValidPolicy EXCEPT !.agentIdentification = s] : s \in AgentIdentificationSections}
        \cup {[ValidPolicy EXCEPT !.identity.site = site,
                                  !.trustRequirements.minimumTrustLevel = level,
                                  !.rateLimits.requestsPerHour = limit,
                                  !.restrictions.readOnlyPaths = paths] :
                site \in {<<"a",".","c","o","m">>, <<"a"," ","b",".","c","o","m">>}, level \in {Num(5), Num(6)},
                limit \in {Some(Num(0)), Some(Num(-1))}, paths \in PathLists}

\* The files parsed and then validated, as checkSitePolicy does with a fetched file.
IdentityFiles ==
    {Join(<<<<"#","#"," ","I","d","e","n","t","i","t","y">>, Directive(<<"s","i","t","e">>, site)>> \o lastUpdated, <<"\n">>) :
        site \in {<<"a",".","c","o","m">>, <<"a"," ","b",".","c","o","m">>, <<"h","t","t","p","s",":","/","/","a",".","c","o","m">>, <<"a","\t","b",".","c","o","m">>},
        lastUpdated \in {<<>>, <<Directive(<<"l","a","s","t","-","u","p","d","a","t","e","d">>, <<"2","0","2","6","-","0","3","-","1","5">>)>>,
                         <<Directive(<<"l","a","s","t","-","u","p","d","a","t","e","d">>, <<"M","a","r","c","h"," ","1","5",","," ","2","0","2","6">>)>>}}

SectionFiles ==
    {Join(SiteHead \o section, <<"\n">>) :
        section \in {<<<<"#","#"," ","R","a","t","e"," ","L","i","m","i","t","s">>, <<"-"," ","r","e","q","u","e","s","t","s","-","p","e","r","-","m","i","n","u","t","e",":"," ","0">>>>,
                     <<<<"#","#"," ","R","a","t","e"," ","L","i","m","i","t","s">>, <<"-"," ","r","e","q","u","e","s","t","s","-","p","e","r","-","h","o","u","r",":"," ","-","5">>>>,
                     <<<<"#","#"," ","T","r","u","s","t"," ","R","e","q","u","i","r","e","m","e","n","t","s">>, <<"-"," ","m","i","n","i","m","u","m","-","t","r","u","s","t","-","l","e","v","e","l",":"," ","5">>,
                       <<"-"," ","a","u","t","h","e","n","t","i","c","a","t","i","o","n",":"," ","R","e","q","u","i","r","e","d">>, <<"-"," ","a","u","t","h","e","n","t","i","c","a","t","i","o","n","-","m","e","t","h","o","d","s",":"," ","o","a","u","t","h","2",",",","," ","a","p","i","-","k","e","y">>>>,
                     <<<<"#","#"," ","T","r","u","s","t"," ","R","e","q","u","i","r","e","m","e","n","t","s">>, <<"-"," ","m","i","n","i","m","u","m","-","t","r","u","s","t","-","l","e","v","e","l",":"," ","9">>>>,
                     <<<<"#","#"," ","D","a","t","a"," ","H","a","n","d","l","i","n","g">>, <<"-"," ","d","a","t","a","-","r","e","t","e","n","t","i","o","n",":"," ","3","0","-","d","a","y","s">>>>,
                     <<<<"#","#"," ","R","e","s","t","r","i","c","t","i","o","n","s">>, <<"-"," ","d","i","s","a","l","l","o","w","e","d","-","p","a","t","h","s",":"," ","/","a","d","m","i","n","/","*",","," ","/","i","n","t","e","r","n","a","l">>>>,
                     <<<<"#","#"," ","R","e","s","t","r","i","c","t","i","o","n","s">>, <<"-"," ","r","e","a","d","-","o","n","l","y","-","p","a","t","h","s",":"," ","b","l","o","g">>>>,
                     <<<<"#","#"," ","A","g","e","n","t"," ","I","d","e","n","t","i","f","i","c","a","t","i","o","n">>, <<"-"," ","a","g","e","n","t","-","h","e","a","d","e","r","-","n","a","m","e",":"," ","X","-","A","g","e","n","t">>>>}}

ValidatedFiles == IdentityFiles \cup SectionFiles \cup ReplayFiles

\* validate(policy)
ValidateCall ==
    /\ validation = None
    /\ log = <<>>
    /\ \E policy \in Policies :
        validation' = Some([policy |-> policy, result |-> Validate(policy)])
    /\ UNCHANGED <<diagnostics, disk, initRun, parseVars, fetchVars, cacheVars>>

\* parser.parse(text) and, of a result with a policy, validate(result.policy)
ParseAndValidate ==
    /\ validation = None
    /\ log = <<>>
    /\ \E text \in ValidatedFiles :
        /\ content' = text
        /\ sections' = SectionsOf(text)
        /\ outcome' = Parse(text)
        /\ log' = Append(log, [content |-> text, outcome |-> outcome'])
        /\ validation' =
              IF outcome'.success /\ outcome'.policy # None
              THEN Some([policy |-> PolicyObject(outcome'.policy[1]),
                         result |-> Validate(PolicyObject(outcome'.policy[1]))])
              ELSE None
    /\ UNCHANGED <<diagnostics, disk, initRun, fetchVars, cacheVars>>

NextValidate ==
    \/ ValidateCall
    \/ ParseAndValidate

SpecValidate == Init /\ [][NextValidate]_vars

-----------------------------------------------------------------------------
(* The agents-md CLI, command init.  `disk` is the AGENTS.md of the target *)
(* directory (None when there is none); `initRun` is what the last run of  *)
(* the command was given and what it did.                                  *)

DEFAULT_INIT_OPTIONS ==
    [siteName |-> <<"e","x","a","m","p","l","e",".","c","o","m">>, contact |-> None, trustLevel |-> 0,
     authentication |-> <<"n","o","n","e">>, allowReadContent |-> TRUE, allowApiAccess |-> FALSE,
     allowFormSubmit |-> FALSE, personalDataCollection |-> <<"m","i","n","i","m","a","l">>,
     dataRetention |-> <<"s","e","s","s","i","o","n","-","o","n","l","y">>, requestsPerMinute |-> Some(30),
     requestsPerHour |-> Some(500)]

\* TRUST_LEVEL_NAMES[level], the names in the order of the levels 0 to 5
TRUST_LEVEL_NAMES ==
    <<<<"A","n","o","n","y","m","o","u","s">>, <<"I","d","e","n","t","i","f","i","e","d">>, <<"V","e","r","i","f","i","e","d">>, <<"A","u","t","h","o","r","i","z","e","d">>, <<"P","r","i","v","i","l","e","g","e","d">>,
      <<"A","d","m","i","n","i","s","t","r","a","t","i","v","e">>>>

\* TRUST_LEVEL_NAMES[options.trustLevel] ?? 'Anonymous'
TrustLevelName(trustLevel) ==
    IF trustLevel + 1 \in DOMAIN TRUST_LEVEL_NAMES THEN TRUST_LEVEL_NAMES[trustLevel + 1]
    ELSE <<"A","n","o","n","y","m","o","u","s">>

\* A boolean interpolated into a template literal
BooleanToString(b) == IF b THEN <<"t","r","u","e">> ELSE <<"f","a","l","s","e">>

\* generateAgentsMd, `today` being new Date().toISOString().split('T')[0]
GenerateAgentsMd(options, today) ==
    Join(<<<<"#"," ","A","G","E","N","T","S",".","m","d">>,
           <<>>,
           <<"#"," ","T","h","i","s"," ","f","i","l","e"," ","d","e","c","l","a","r","e","s"," ","A","I"," ","a","g","e","n","t"," ","i","n","t","e","r","a","c","t","i","o","n"," ","p","o","l","i","c","i","e","s"," ","f","o","r"," ","t","h","i","s"," ","w","e","b"," ","p","r","o","p","e","r","t","y",".">>,
           <<"#"," ","S","p","e","c","i","f","i","c","a","t","i","o","n",":"," ","A","G","E","N","T","S","-","M","D","-","S","P","E","C","-","0","0","1"," ">> \o <<"U+2014">>
               \o <<" ","h","t","t","p","s",":","/","/","g","i","t","h","u","b",".","c","o","m","/","a","u","m","o","s","-","a","i","/","a","g","e","n","t","s","-","m","d","-","s","p","e","c">>,
           <<>>,
           <<"#","#"," ","I","d","e","n","t","i","t","y">>,
           <<"-"," ","s","i","t","e",":"," ">> \o options.siteName>>
         \o (IF Truthy(options.contact) # None
             THEN <<<<"-"," ","c","o","n","t","a","c","t",":"," ">> \o options.contact[1]>>
             ELSE <<<<"#"," ","-"," ","c","o","n","t","a","c","t",":"," ","a","i","-","p","o","l","i","c","y","@","y","o","u","r","d","o","m","a","i","n",".","c","o","m">>>>)
         \o <<<<"-"," ","l","a","s","t","-","u","p","d","a","t","e","d",":"," ">> \o today,
              <<"-"," ","s","p","e","c","-","v","e","r","s","i","o","n",":"," ","1",".","0",".","0">>,
              <<>>,
              <<"#","#"," ","T","r","u","s","t"," ","R","e","q","u","i","r","e","m","e","n","t","s">>,
              <<"#"," ","T","r","u","s","t"," ","l","e","v","e","l"," ">> \o NumberToString(options.trustLevel) \o <<" ","="," ">>
                  \o TrustLevelName(options.trustLevel)
                  \o <<"."," ","T","r","u","s","t"," ","c","h","a","n","g","e","s"," ","a","r","e"," ","M","A","N","U","A","L"," ","O","N","L","Y",".">>,
              <<"#"," ","L","e","v","e","l","s",":"," ","0"," ","(","A","n","o","n","y","m","o","u","s",")"," ","1"," ","(","I","d","e","n","t","i","f","i","e","d",")"," ","2"," ","(","V","e","r","i","f","i","e","d",")"," ","3"," ","(","A","u","t","h","o","r","i","z","e","d",")"," ","4"," ","(","P","r","i","v","i","l","e","g","e","d",")"," ","5"," ","(","A","d","m","i","n","i","s","t","r","a","t","i","v","e",")">>,
              <<"-"," ","m","i","n","i","m","u","m","-","t","r","u","s","t","-","l","e","v","e","l",":"," ">> \o NumberToString(options.trustLevel),
              <<"-"," ","a","u","t","h","e","n","t","i","c","a","t","i","o","n",":"," ">> \o options.authentication,
              <<>>,
              <<"#","#"," ","A","l","l","o","w","e","d"," ","A","c","t","i","o","n","s">>,
              <<"-"," ","r","e","a","d","-","c","o","n","t","e","n","t",":"," ">> \o BooleanToString(options.allowReadContent),
              <<"-"," ","s","u","b","m","i","t","-","f","o","r","m","s",":"," ">> \o BooleanToString(options.allowFormSubmit),
              <<"-"," ","m","a","k","e","-","p","u","r","c","h","a","s","e","s",":"," ","f","a","l","s","e">>,
              <<"-"," ","m","o","d","i","f","y","-","a","c","c","o","u","n","t",":"," ","f","a","l","s","e">>,
              <<"-"," ","a","c","c","e","s","s","-","a","p","i",":"," ">> \o BooleanToString(options.allowApiAccess),
              <<"-"," ","d","o","w","n","l","o","a","d","-","f","i","l","e","s",":"," ","f","a","l","s","e">>,
              <<"-"," ","u","p","l","o","a","d","-","f","i","l","e","s",":"," ","f","a","l","s","e">>,
              <<"-"," ","s","e","n","d","-","m","e","s","s","a","g","e","s",":"," ","f","a","l","s","e">>,
              <<"-"," ","d","e","l","e","t","e","-","d","a","t","a",":"," ","f","a","l","s","e">>,
              <<"-"," ","c","r","e","a","t","e","-","c","o","n","t","e","n","t",":"," ","f","a","l","s","e">>,
              <<>>,
              <<"#","#"," ","R","a","t","e"," ","L","i","m","i","t","s">>>>
         \o (IF options.requestsPerMinute # None
             THEN <<<<"-"," ","r","e","q","u","e","s","t","s","-","p","e","r","-","m","i","n","u","t","e",":"," ">> \o NumberToString(options.requestsPerMinute[1])>>
             ELSE <<>>)
         \o (IF options.requestsPerHour # None
             THEN <<<<"-"," ","r","e","q","u","e","s","t","s","-","p","e","r","-","h","o","u","r",":"," ">> \o NumberToString(options.requestsPerHour[1])>>
             ELSE <<>>)
         \o <<<<"-"," ","c","o","n","c","u","r","r","e","n","t","-","s","e","s","s","i","o","n","s",":"," ","3">>,
              <<>>,
              <<"#","#"," ","D","a","t","a"," ","H","a","n","d","l","i","n","g">>,
              <<"-"," ","p","e","r","s","o","n","a","l","-","d","a","t","a","-","c","o","l","l","e","c","t","i","o","n",":"," ">> \o options.personalDataCollection,
              <<"-"," ","d","a","t","a","-","r","e","t","e","n","t","i","o","n",":"," ">> \o options.dataRetention,
              <<"-"," ","t","h","i","r","d","-","p","a","r","t","y","-","s","h","a","r","i","n","g",":"," ","n","o","n","e">>,
              <<"-"," ","g","d","p","r","-","c","o","m","p","l","i","a","n","c","e",":"," ","f","a","l","s","e">>,
              <<>>,
              <<"#","#"," ","R","e","s","t","r","i","c","t","i","o","n","s">>,
              <<"#"," ","L","i","s","t"," ","p","a","t","h","s"," ","a","g","e","n","t","s"," ","m","u","s","t"," ","n","o","t"," ","a","c","c","e","s","s","."," ","G","l","o","b"," ","p","a","t","t","e","r","n","s",":"," ","/","a","d","m","i","n","/","*"," ","/","i","n","t","e","r","n","a","l","/","*","*">>,
              <<"#"," ","-"," ","d","i","s","a","l","l","o","w","e","d","-","p","a","t","h","s",":"," ","/","a","d","m","i","n","/","*",","," ","/","i","n","t","e","r","n","a","l","/","*">>,
              <<"#"," ","-"," ","r","e","q","u","i","r","e","-","h","u","m","a","n","-","a","p","p","r","o","v","a","l",":"," ","/","c","h","e","c","k","o","u","t","/","*">>,
              <<"#"," ","-"," ","r","e","a","d","-","o","n","l","y","-","p","a","t","h","s",":"," ","/","b","l","o","g","/","*",","," ","/","d","o","c","s","/","*">>,
              <<>>,
              <<"#","#"," ","A","g","e","n","t"," ","I","d","e","n","t","i","f","i","c","a","t","i","o","n">>,
              <<"-"," ","r","e","q","u","i","r","e","-","a","g","e","n","t","-","h","e","a","d","e","r",":"," ","f","a","l","s","e">>,
              <<"#"," ","-"," ","a","g","e","n","t","-","h","e","a","d","e","r","-","n","a","m","e",":"," ","X","-","A","g","e","n","t","-","I","d","e","n","t","i","t","y">>,
              <<"-"," ","r","e","q","u","i","r","e","-","d","i","s","c","l","o","s","u","r","e",":"," ","f","a","l","s","e">>,
              <<>>>>,
         <<"\n">>)

\* initFile with the write made whether or not the file exists
InitFileAlwaysWriting(file, options, overwrite, today) ==
    [result |-> [alreadyExisted |-> file # None,
                 content |-> GenerateAgentsMd(options, today)],
     file |-> Some(GenerateAgentsMd(options, today))]

\* initFile: the InitResult and the file as the call leaves it
InitFile(file, options, overwrite, today) ==
    [result |-> [alreadyExisted |-> file # None,
                 content |-> GenerateAgentsMd(options, today)],
     file |-> IF file = None \/ overwrite THEN Some(GenerateAgentsMd(options, today))
              ELSE file]

\* parseInt(text, 10) || undefined
ParseIntOrUndefined(text) ==
    IF ParseInt(text) = None \/ ParseInt(text) = Some(0) THEN None ELSE ParseInt(text)

\* opts.site ?? DEFAULT_INIT_OPTIONS.siteName
SiteNameOf(opts) == IF opts.site = None THEN DEFAULT_INIT_OPTIONS.siteName ELSE opts.site[1]

\* The InitOptions the init action builds from the command line
InitOptionsOf(opts) ==
    [siteName |-> SiteNameOf(opts),
     contact |-> opts.contact,
     trustLevel |-> ParseInt(opts.trustLevel)[1],
     authentication |-> opts.auth,
     allowReadContent |-> TRUE,
     allowApiAccess |-> opts.allowApi,
     allowFormSubmit |-> opts.allowForms,
     personalDataCollection |-> opts.dataCollection,
     dataRetention |-> opts.dataRetention,
     requestsPerMinute |-> ParseIntOrUndefined(opts.rpm),
     requestsPerHour |-> ParseIntOrUndefined(opts.rph)]

\* The checks of the command line that end the init action with exit status 1
RejectsOptions(opts) ==
    \/ ParseInt(opts.trustLevel) = None
    \/ ParseInt(opts.trustLevel)[1] < 0
    \/ ParseInt(opts.trustLevel)[1] > 5
    \/ opts.auth \notin {<<"r","e","q","u","i","r","e","d">>, <<"o","p","t","i","o","n","a","l">>, <<"n","o","n","e">>}
    \/ opts.dataCollection \notin {<<"n","o","n","e">>, <<"m","i","n","i","m","a","l">>, <<"s","t","a","n","d","a","r","d">>, <<"e","x","t","e","n","s","i","v","e">>}
    \/ opts.dataRetention \notin {<<"n","o","n","e">>, <<"s","e","s","s","i","o","n","-","o","n","l","y">>, <<"3","0","-","d","a","y","s">>, <<"1","-","y","e","a","r">>, <<"i","n","d","e","f","i","n","i","t","e">>}

\* What a run of the init action leaves: the options it was given, the InitResult
\* of initFile (None when initFile was not called), the lines it reported and
\* the exit status.
InitRun(opts, result, reported, exitCode) ==
    [opts |-> opts, result |-> result, reported |-> reported, exitCode |-> exitCode]

\* The init action from the initFile call on
InitReport(opts, made) ==
    IF made.result.alreadyExisted /\ ~opts.overwrite
    THEN InitRun(opts, Some(made.result), "AGENTS.md already exists", 1)
    ELSE IF made.result.alreadyExisted
    THEN InitRun(opts, Some(made.result), "Overwrote existing AGENTS.md", 0)
    ELSE InitRun(opts, Some(made.result), "Created AGENTS.md", 0)

\* The command lines of init.
InitOpts ==
    [site : {None}, contact : {None}, trustLevel : {<<"2">>, <<"7">>}, auth : {<<"n","o","n","e">>, <<"m","a","y","b","e">>},
     allowApi : {FALSE}, allowForms : {FALSE}, dataCollection : {<<"m","i","n","i","m","a","l">>},
     dataRetention : {<<"s","e","s","s","i","o","n","-","o","n","l","y">>}, rpm : {<<"0">>, <<"3","0">>, <<"x">>}, rph : {<<"0">>, <<"5","0","0">>},
     overwrite : BOOLEAN]
        \cup
    [site : {Some(<<"a",".","c","o","m">>)}, contact : {Some(<<"a","i","@","a",".","c","o","m">>)}, trustLevel : {<<"2">>},
     auth : {<<"r","e","q","u","i","r","e","d">>}, allowApi : {TRUE}, allowForms : {FALSE},
     dataCollection : {<<"n","o","n","e">>, <<"a","l","l">>}, dataRetention : {<<"3","0","-","d","a","y","s">>, <<"f","o","r","e","v","e","r">>},
     rpm : {<<"0">>, <<"3","0">>}, rph : {<<"5","0","0">>}, overwrite : BOOLEAN]

\* The dates a run can take place on.
Todays == {<<"2","0","2","6","-","0","3","-","1","5">>}

\* agents-md init: the action of the init command
InitCommand ==
    /\ \E opts \in InitOpts, today \in Todays :
        IF RejectsOptions(opts)
        THEN /\ initRun' = Some(InitRun(opts, None, "Error", 1))
             /\ disk' = disk
        ELSE /\ initRun' = Some(InitReport(opts, InitFile(disk, InitOptionsOf(opts),
                                                          opts.overwrite, today)))
             /\ disk' = InitFile(disk, InitOptionsOf(opts), opts.overwrite, today).file
    /\ UNCHANGED <<validation, diagnostics, parseVars, fetchVars, cacheVars>>

NextInit == InitCommand

SpecInit == Init /\ [][NextInit]_vars

-----------------------------------------------------------------------------
(* The editor extension: analyzeDocument.  A diagnostic is the 0-based     *)
(* line it is attached to, the message template, the value interpolated    *)
(* into it and the severity.                                               *)

REQUIRED_TOP_HEADING == <<"#"," ","A","G","E","N","T","S",".","m","d">>

REQUIRED_SECTIONS == <<<<"#","#"," ","I","d","e","n","t","i","t","y">>>>

KNOWN_SECTIONS ==
    <<<<"#","#"," ","I","d","e","n","t","i","t","y">>, <<"#","#"," ","T","r","u","s","t"," ","R","e","q","u","i","r","e","m","e","n","t","s">>, <<"#","#"," ","A","l","l","o","w","e","d"," ","A","c","t","i","o","n","s">>, <<"#","#"," ","R","a","t","e"," ","L","i","m","i","t","s">>,
      <<"#","#"," ","D","a","t","a"," ","H","a","n","d","l","i","n","g">>, <<"#","#"," ","R","e","s","t","r","i","c","t","i","o","n","s">>, <<"#","#"," ","A","g","e","n","t"," ","I","d","e","n","t","i","f","i","c","a","t","i","o","n">>>>

Diagnostic(line, text, value, severity) ==
    [line |-> line, text |-> text, value |-> value, severity |-> severity]

\* Array.prototype.includes
SeqIncludes(seq, item) == \E i \in 1..Len(seq) : seq[i] = item

\* trimmed.match(/^-\s*(key|...):\s*(\S+)/i): the captured value when the line
\* matches with one of `keys`, None otherwise
MatchKeyValue(trimmed, keys) ==
    LET a == SkipWhitespace(trimmed, 2)
        matching == {key \in keys :
                        /\ a + Len(key) <= Len(trimmed)
                        /\ ToLowerCase(SubSeq(trimmed, a, a + Len(key) - 1)) = key
                        /\ trimmed[a + Len(key)] = ":"}
        b == SkipWhitespace(trimmed, a + Len(CHOOSE key \in matching : TRUE) + 1)
    IN  IF Len(trimmed) = 0 \/ trimmed[1] # "-" \/ matching = {} THEN None
        ELSE IF b > Len(trimmed) THEN None
        ELSE Some(SubSeq(trimmed, b, SkipForward(trimmed, b, {trimmed[k] : k \in 1..Len(trimmed)}
                                                                 \ Whitespace) - 1))

BooleanKeys ==
    {<<"r","e","a","d","-","c","o","n","t","e","n","t">>, <<"s","u","b","m","i","t","-","f","o","r","m","s">>, <<"m","a","k","e","-","p","u","r","c","h","a","s","e","s">>, <<"m","o","d","i","f","y","-","a","c","c","o","u","n","t">>, <<"a","c","c","e","s","s","-","a","p","i">>,
     <<"d","o","w","n","l","o","a","d","-","f","i","l","e","s">>, <<"u","p","l","o","a","d","-","f","i","l","e","s">>, <<"s","e","n","d","-","m","e","s","s","a","g","e","s">>, <<"d","e","l","e","t","e","-","d","a","t","a">>, <<"c","r","e","a","t","e","-","c","o","n","t","e","n","t">>,
     <<"r","e","q","u","i","r","e","-","a","g","e","n","t","-","h","e","a","d","e","r">>, <<"r","e","q","u","i","r","e","-","d","i","s","c","l","o","s","u","r","e">>, <<"g","d","p","r","-","c","o","m","p","l","i","a","n","c","e">>}

\* The loop body of analyzeDocument, "Collect section headings"
CheckSection(trimmed, lineIndex, diags) ==
    IF /\ StartsWith(trimmed, <<"#","#"," ">>)
       /\ ~SeqIncludes(KNOWN_SECTIONS, trimmed)
       /\ ~(StartsWith(trimmed, <<"#","#"," ","x","-">>) \/ StartsWith(trimmed, <<"#","#"," ","X","-">>))
    THEN Append(diags, Diagnostic(lineIndex, "Unknown section", trimmed, "Warning"))
    ELSE diags

\* The loop body of analyzeDocument, "Validate minimum-trust-level values"
CheckMinimumTrustLevel(trimmed, lineIndex, diags) ==
    IF MatchKeyValue(trimmed, {<<"m","i","n","i","m","u","m","-","t","r","u","s","t","-","l","e","v","e","l">>}) = None THEN diags
    ELSE IF \/ ParseInt(MatchKeyValue(trimmed, {<<"m","i","n","i","m","u","m","-","t","r","u","s","t","-","l","e","v","e","l">>})[1]) = None
            \/ ParseInt(MatchKeyValue(trimmed, {<<"m","i","n","i","m","u","m","-","t","r","u","s","t","-","l","e","v","e","l">>})[1])[1] < 0
            \/ ParseInt(MatchKeyValue(trimmed, {<<"m","i","n","i","m","u","m","-","t","r","u","s","t","-","l","e","v","e","l">>})[1])[1] > 5
    THEN Append(diags, Diagnostic(lineIndex, "Invalid trust level",
                                        MatchKeyValue(trimmed, {<<"m","i","n","i","m","u","m","-","t","r","u","s","t","-","l","e","v","e","l">>})[1],
                                        "Error"))
    ELSE diags

\* The loop body of analyzeDocument, "Validate boolean values for known boolean keys"
CheckBoolean(trimmed, lineIndex, diags) ==
    IF MatchKeyValue(trimmed, BooleanKeys) = None THEN diags
    ELSE IF ToLowerCase(MatchKeyValue(trimmed, BooleanKeys)[1]) \notin {<<"t","r","u","e">>, <<"f","a","l","s","e">>}
    THEN Append(diags, Diagnostic(lineIndex, "is not a valid boolean",
                                        MatchKeyValue(trimmed, BooleanKeys)[1], "Error"))
    ELSE diags

\* The loop body of analyzeDocument, "Validate authentication enum values"
CheckAuthentication(trimmed, lineIndex, diags) ==
    IF MatchKeyValue(trimmed, {<<"a","u","t","h","e","n","t","i","c","a","t","i","o","n">>}) = None THEN diags
    ELSE IF ToLowerCase(MatchKeyValue(trimmed, {<<"a","u","t","h","e","n","t","i","c","a","t","i","o","n">>})[1])
                \notin {<<"r","e","q","u","i","r","e","d">>, <<"o","p","t","i","o","n","a","l">>, <<"n","o","n","e">>}
    THEN Append(diags, Diagnostic(lineIndex, "Invalid authentication value",
                                        MatchKeyValue(trimmed, {<<"a","u","t","h","e","n","t","i","c","a","t","i","o","n">>})[1],
                                        "Error"))
    ELSE diags

\* The loop of analyzeDocument over the lines from the i-th on
RECURSIVE AnalyzeLines(_, _, _)
AnalyzeLines(lines, i, diags) ==
    IF i > Len(lines) THEN diags
    ELSE AnalyzeLines(lines, i + 1,
             CheckAuthentication(Trim(lines[i]), i - 1,
                 CheckBoolean(Trim(lines[i]), i - 1,
                     CheckMinimumTrustLevel(Trim(lines[i]), i - 1,
                         CheckSection(Trim(lines[i]), i - 1, diags)))))

\* foundSections after the loop
FoundSections(lines) ==
    {Trim(lines[i]) : i \in {j \in 1..Len(lines) : StartsWith(Trim(lines[j]), <<"#","#"," ">>)}}

\* "Check required sections are present"
RECURSIVE CheckRequiredSections(_, _, _)
CheckRequiredSections(foundSections, k, diags) ==
    IF k > Len(REQUIRED_SECTIONS) THEN diags
    ELSE IF REQUIRED_SECTIONS[k] \notin foundSections
    THEN CheckRequiredSections(foundSections, k + 1,
             Append(diags, Diagnostic(0, "Required section is missing",
                                            REQUIRED_SECTIONS[k], "Error")))
    ELSE CheckRequiredSections(foundSections, k + 1, diags)

\* The check of the top heading
CheckTopHeading(lines) ==
    IF \E i \in 1..Len(lines) : Trim(lines[i]) = REQUIRED_TOP_HEADING THEN <<>>
    ELSE <<Diagnostic(0, "must begin with # AGENTS.md", REQUIRED_TOP_HEADING, "Error")>>

\* analyzeDocument on a document with this text
AnalyzeDocument(text) ==
    CheckRequiredSections(FoundSections(SplitLines(text)), 1,
        AnalyzeLines(SplitLines(text), 1, CheckTopHeading(SplitLines(text))))

\* The Identity headings of the documents opened.
IdentityHeadings == {<<"#","#"," ","I","d","e","n","t","i","t","y">>, <<"#","#"," ","i","d","e","n","t","i","t","y">>, <<"#","#"," ","I","D","E","N","T","I","T","Y">>}

\* The sections with a boolean directive, and the values written for it.
BooleanSections == {
    <<<<"#","#"," ","A","l","l","o","w","e","d"," ","A","c","t","i","o","n","s">>, Directives(<<"r","e","a","d","-","c","o","n","t","e","n","t">>, BooleanTexts)>>,
    <<<<"#","#"," ","A","g","e","n","t"," ","I","d","e","n","t","i","f","i","c","a","t","i","o","n">>, Directives(<<"r","e","q","u","i","r","e","-","d","i","s","c","l","o","s","u","r","e">>, BooleanTexts)>>,
    <<<<"#","#"," ","D","a","t","a"," ","H","a","n","d","l","i","n","g">>, Directives(<<"G","D","P","R","-","C","o","m","p","l","i","a","n","c","e">>, {<<"y","e","s">>, <<"t","r","u","e">>, <<"m","a","y","b","e">>})>>,
    <<<<"#","#"," ","T","r","u","s","t"," ","R","e","q","u","i","r","e","m","e","n","t","s">>,
      {<<"-"," ","m","i","n","i","m","u","m","-","t","r","u","s","t","-","l","e","v","e","l",":"," ","2">>, <<"-"," ","m","i","n","i","m","u","m","-","t","r","u","s","t","-","l","e","v","e","l",":"," ","7">>, <<"-"," ","a","u","t","h","e","n","t","i","c","a","t","i","o","n",":"," ","n","o","n","e">>,
       <<"-"," ","a","u","t","h","e","n","t","i","c","a","t","i","o","n",":"," ","m","a","y","b","e">>}>>,
    <<<<"#","#"," ","F","o","o">>, {<<"-"," ","r","e","a","d","-","c","o","n","t","e","n","t",":"," ","o","n">>}>>,
    <<<<"#","#"," ","x","-","f","o","o">>, {<<"-"," ","r","e","a","d","-","c","o","n","t","e","n","t",":"," ","t","r","u","e">>}>> }

Documents ==
    UNION {{Join(top \o <<heading, <<"-"," ","s","i","t","e",":"," ","a">>, bs[1], line>>, <<"\n">>)
               : top \in {<<>>, <<<<"#"," ","A","G","E","N","T","S",".","m","d">>>>}, heading \in IdentityHeadings,
                 line \in bs[2]}
           : bs \in BooleanSections}

\* The editor analyzes a document.
OpenDocument ==
    /\ diagnostics = None
    /\ \E text \in Documents :
        /\ content' = text
        /\ diagnostics' = Some(AnalyzeDocument(text))
    /\ UNCHANGED <<sections, outcome, log, validation, disk, initRun, fetchVars, cacheVars>>

\* parser.parse on the text of the document the editor analyzed
ParseDocument ==
    /\ diagnostics # None
    /\ log = <<>>
    /\ sections' = SectionsOf(content)
    /\ outcome' = Parse(content)
    /\ log' = Append(log, [content |-> content, outcome |-> outcome'])
    /\ UNCHANGED <<content, fetchVars, cacheVars, toolVars>>

NextDocument ==
    \/ OpenDocument
    \/ ParseDocument

SpecDocument == Init /\ [][NextDocument]_vars

-----------------------------------------------------------------------------
(* What the claims are stated with.                                        *)

\* The last parse call has returned.
Returned == log # <<>>

Policy == outcome.policy[1]

\* The directives of the section called `name` in the parsed file; <<>> without one.
SectionData(name) == IF MapHas(sections, name) THEN MapGet(sections, name)[1] ELSE <<>>

\* The raw value of a directive of the parsed file, None when it has none.
RawValue(name, key) == MapGet(SectionData(name), key)

HasSite ==
    /\ MapHas(sections, <<"i","d","e","n","t","i","t","y">>)
    /\ RawValue(<<"i","d","e","n","t","i","t","y">>, <<"s","i","t","e">>) # None
    /\ Trim(RawValue(<<"i","d","e","n","t","i","t","y">>, <<"s","i","t","e">>)[1]) # <<>>

\* A warning of the outcome names this section, key and raw value.
Warned(section, key, raw) ==
    \E i \in 1..Len(outcome.warnings) :
        /\ outcome.warnings[i].section = section
        /\ outcome.warnings[i].key = key
        /\ outcome.warnings[i].raw = raw

WarningCount(section, key, raw) ==
    Cardinality({i \in 1..Len(outcome.warnings) :
                    /\ outcome.warnings[i].section = section
                    /\ outcome.warnings[i].key = key
                    /\ outcome.warnings[i].raw = raw})

\* A decimal integer in canonical form: an optional "-", then "0" or digits that do
\* not start with "0"; "-0" is not canonical.
CanonicalInteger(s) ==
    LET digits == IF Len(s) > 0 /\ s[1] = "-" THEN Tail(s) ELSE s
    IN  /\ Len(digits) > 0
        /\ \A i \in 1..Len(digits) : digits[i] \in Digits
        /\ digits[1] = "0" => (Len(digits) = 1 /\ s = digits)

\* The integer a canonical decimal denotes.
IntegerOf(s) ==
    IF s[1] = "-" THEN -DigitsValue(s, 2, Len(s) + 1, 0) ELSE DigitsValue(s, 1, Len(s) + 1, 0)

-----------------------------------------------------------------------------
(* C1                                                                      *)

\* A line that starts with "## " and whose remainder, trimmed and lower-cased, is
\* "identity".
IdentityHeadingLine(line) ==
    /\ StartsWith(line, <<"#","#"," ">>)
    /\ ToLowerCase(Trim(SliceFrom(line, 3))) = <<"i","d","e","n","t","i","t","y">>

\* A line that starts with "##" and a whitespace character and whose remainder,
\* trimmed and lower-cased, is "identity".
IdentityHeadingLineAnySpace(line) ==
    /\ Len(line) >= 3
    /\ line[1] = "#" /\ line[2] = "#" /\ line[3] \in Whitespace
    /\ ToLowerCase(Trim(SliceFrom(line, 2))) = <<"i","d","e","n","t","i","t","y">>

SingleIdentityError ==
    /\ outcome.success = FALSE
    /\ Len(outcome.errors) = 1
    /\ outcome.errors[1].section = "identity"

\* C1 as stated: every text without a line-initial "## " Identity heading fails to
\* parse with exactly one error, whose section is "identity".
C1_AsStated ==
    (Returned /\ \A i \in 1..Len(SplitLines(content)) :
                     ~IdentityHeadingLine(SplitLines(content)[i]))
        => SingleIdentityError

\* C1 amended: every text that is not blank and has no line starting with "##" and a
\* whitespace character whose trimmed, lower-cased name is "identity" fails to parse
\* with exactly one error, whose section is "identity".
C1_MissingIdentity ==
    (Returned /\ ~IsBlank(content)
              /\ \A i \in 1..Len(SplitLines(content)) :
                     ~IdentityHeadingLineAnySpace(SplitLines(content)[i]))
        => SingleIdentityError

\* A file with another section and a site directive, but no Identity heading.
C1_Witness ==
    /\ Returned
    /\ ~IsBlank(content)
    /\ \A i \in 1..Len(SplitLines(content)) :
           ~IdentityHeadingLineAnySpace(SplitLines(content)[i])
    /\ MapHas(sections, <<"f","o","o">>)
    /\ MapHas(SectionData(<<"f","o","o">>), <<"s","i","t","e">>)

-----------------------------------------------------------------------------
(* C2                                                                      *)

\* C2: when the Identity section has no site directive, or an empty one, the parse
\* fails without a policy, with exactly one error, on "identity", and no warning.
C2_MissingSite ==
    (Returned /\ MapHas(sections, <<"i","d","e","n","t","i","t","y">>) /\ ~HasSite)
        => /\ SingleIdentityError
           /\ outcome.policy = None
           /\ outcome.warnings = <<>>

\* An Identity section with an unknown key and no site, followed by an Allowed
\* Actions section with an unreadable boolean.
C2_Witness ==
    /\ Returned
    /\ MapHas(sections, <<"i","d","e","n","t","i","t","y">>)
    /\ RawValue(<<"i","d","e","n","t","i","t","y">>, <<"s","i","t","e">>) = None
    /\ RawValue(<<"i","d","e","n","t","i","t","y">>, <<"f","o","o">>) # None
    /\ RawValue(<<"a","l","l","o","w","e","d"," ","a","c","t","i","o","n","s">>, <<"r","e","a","d","-","c","o","n","t","e","n","t">>) = Some(<<"m","a","y","b","e">>)
    /\ outcome.success = FALSE

-----------------------------------------------------------------------------
(* C3                                                                      *)

\* C3: success holds exactly when a policy is present and exactly when there are no
\* errors; without success there is no policy and at least one error.
C3_OutcomeShape ==
    Returned
        => /\ outcome.success <=> outcome.policy # None
           /\ outcome.success <=> outcome.errors = <<>>
           /\ ~outcome.success => (outcome.policy = None /\ Len(outcome.errors) >= 1)

\* A failed parse of a file that does have sections.
C3_Witness ==
    /\ Returned
    /\ ~outcome.success
    /\ MapHas(sections, <<"i","d","e","n","t","i","t","y">>)
    /\ Len(outcome.errors) = 1

-----------------------------------------------------------------------------
(* C4                                                                      *)

\* C4: every file whose Identity section has a non-empty site parses successfully,
\* with a policy, whatever else it contains.
C4_OnlySiteIsFatal ==
    (Returned /\ HasSite) => (outcome.success /\ outcome.policy # None)

KnownSectionNames ==
    {<<"i","d","e","n","t","i","t","y">>, <<"t","r","u","s","t"," ","r","e","q","u","i","r","e","m","e","n","t","s">>, <<"a","l","l","o","w","e","d"," ","a","c","t","i","o","n","s">>, <<"r","a","t","e"," ","l","i","m","i","t","s">>,
     <<"d","a","t","a"," ","h","a","n","d","l","i","n","g">>, <<"r","e","s","t","r","i","c","t","i","o","n","s">>, <<"a","g","e","n","t"," ","i","d","e","n","t","i","f","i","c","a","t","i","o","n">>}

\* A successful parse of a file with a site, an unknown section and a warning.
C4_Witness ==
    /\ Returned
    /\ HasSite
    /\ \E i \in 1..Len(sections) : sections[i][1] \notin KnownSectionNames
    /\ Len(outcome.warnings) > 0
    /\ outcome.success

-----------------------------------------------------------------------------
(* C5                                                                      *)

OnlyIdentitySection == MapKeys(sections) = <<<<"i","d","e","n","t","i","t","y">>>>

WellKnownActions ==
    {<<"r","e","a","d","C","o","n","t","e","n","t">>, <<"s","u","b","m","i","t","F","o","r","m","s">>, <<"m","a","k","e","P","u","r","c","h","a","s","e","s">>, <<"m","o","d","i","f","y","A","c","c","o","u","n","t">>, <<"a","c","c","e","s","s","A","p","i">>,
     <<"d","o","w","n","l","o","a","d","F","i","l","e","s">>, <<"u","p","l","o","a","d","F","i","l","e","s">>, <<"s","e","n","d","M","e","s","s","a","g","e","s">>, <<"d","e","l","e","t","e","D","a","t","a">>, <<"c","r","e","a","t","e","C","o","n","t","e","n","t">>}

\* Every section but Identity has its documented default.
AllDefaults ==
    /\ Policy.trustRequirements =
           [minimumTrustLevel |-> 0, authentication |-> <<"n","o","n","e">>,
            authenticationMethods |-> None]
    /\ {Policy.allowedActions[i][1] : i \in 1..Len(Policy.allowedActions)} = WellKnownActions
    /\ Len(Policy.allowedActions) = Cardinality(WellKnownActions)
    /\ \A i \in 1..Len(Policy.allowedActions) :
           Policy.allowedActions[i][2] = (Policy.allowedActions[i][1] = <<"r","e","a","d","C","o","n","t","e","n","t">>)
    /\ Policy.rateLimits =
           [requestsPerMinute |-> None, requestsPerHour |-> None, concurrentSessions |-> None]
    /\ Policy.dataHandling =
           [personalDataCollection |-> None, dataRetention |-> None,
            thirdPartySharing |-> None, gdprCompliance |-> None]
    /\ Policy.restrictions =
           [disallowedPaths |-> <<>>, requireHumanApproval |-> <<>>, readOnlyPaths |-> <<>>]
    /\ Policy.agentIdentification =
           [requireAgentHeader |-> FALSE, agentHeaderName |-> None,
            requireDisclosure |-> FALSE]

\* The keys of the Identity section that are neither recognized nor "x-" extensions.
UnrecognizedIdentityKeys ==
    {SectionData(<<"i","d","e","n","t","i","t","y">>)[i][1] : i \in 1..Len(SectionData(<<"i","d","e","n","t","i","t","y">>))}
        \ {k \in {SectionData(<<"i","d","e","n","t","i","t","y">>)[i][1] : i \in 1..Len(SectionData(<<"i","d","e","n","t","i","t","y">>))} :
              \/ k \in {<<"s","i","t","e">>, <<"c","o","n","t","a","c","t">>, <<"l","a","s","t","-","u","p","d","a","t","e","d">>, <<"s","p","e","c","-","v","e","r","s","i","o","n">>}
              \/ StartsWith(k, <<"x","-">>)}

\* C5 as stated: a file with only an Identity section with a non-empty site parses
\* successfully, every other section is its default, and there is no warning.
C5_AsStated ==
    (Returned /\ OnlyIdentitySection /\ HasSite)
        => /\ outcome.success
           /\ AllDefaults
           /\ outcome.warnings = <<>>

\* C5 amended: a file with only an Identity section with a non-empty site parses
\* successfully and every other section is its default; the warnings are exactly one
\* per Identity key that is neither recognized nor an "x-" extension, so there is
\* none when the Identity section has no such key.
C5_IdentityOnlyDefaults ==
    (Returned /\ OnlyIdentitySection /\ HasSite)
        => /\ outcome.success
           /\ AllDefaults
           /\ Len(outcome.warnings) = Cardinality(UnrecognizedIdentityKeys)
           /\ \A k \in UnrecognizedIdentityKeys : WarningCount("identity", k, <<>>) = 1

\* An Identity-only file with a site and one unrecognized key.
C5_Witness ==
    /\ Returned
    /\ OnlyIdentitySection
    /\ HasSite
    /\ UnrecognizedIdentityKeys = {<<"f","o","o">>}
    /\ outcome.success

-----------------------------------------------------------------------------
(* C6                                                                      *)

TrustLevelRaw == RawValue(<<"t","r","u","s","t"," ","r","e","q","u","i","r","e","m","e","n","t","s">>, <<"m","i","n","i","m","u","m","-","t","r","u","s","t","-","l","e","v","e","l">>)

TrustLevelWarned == Warned("trust requirements", <<"m","i","n","i","m","u","m","-","t","r","u","s","t","-","l","e","v","e","l">>, TrustLevelRaw[1])

\* C6: the minimum trust level of a returned policy is an integer in 0..5; an integer
\* below 0 gives 0 and one above 5 gives 5, a value that is not an integer gives the
\* default 0, and each of the three comes with a warning.
C6_TrustLevelRange ==
    (Returned /\ outcome.success)
        => /\ Policy.trustRequirements.minimumTrustLevel \in 0..5
           /\ (TrustLevelRaw # None /\ CanonicalInteger(TrustLevelRaw[1])
                   /\ IntegerOf(TrustLevelRaw[1]) < 0)
                  => (Policy.trustRequirements.minimumTrustLevel = 0 /\ TrustLevelWarned)
           /\ (TrustLevelRaw # None /\ CanonicalInteger(TrustLevelRaw[1])
                   /\ IntegerOf(TrustLevelRaw[1]) > 5)
                  => (Policy.trustRequirements.minimumTrustLevel = 5 /\ TrustLevelWarned)
           /\ (TrustLevelRaw # None /\ ~CanonicalInteger(TrustLevelRaw[1]))
                  => (Policy.trustRequirements.minimumTrustLevel = 0 /\ TrustLevelWarned)

\* minimum-trust-level: 7 was parsed and clamped to 5.
C6_Witness ==
    /\ Returned
    /\ outcome.success
    /\ TrustLevelRaw = Some(<<"7">>)
    /\ Policy.trustRequirements.minimumTrustLevel = 5

-----------------------------------------------------------------------------
(* C7                                                                      *)

AcceptedTrue == {<<"t","r","u","e">>, <<"y","e","s">>, <<"1">>, <<"o","n">>}

AcceptedFalse == {<<"f","a","l","s","e">>, <<"n","o">>, <<"0">>, <<"o","f","f">>}

\* What the claim says of one boolean directive: `raw` its optional raw value, `field`
\* the optional value of the policy field it sets, `default` that of the field's default.
BooleanRule(section, key, raw, field, default) ==
    raw # None =>
        LET normalized == ToLowerCase(Trim(raw[1]))
        IN  /\ normalized \in AcceptedTrue
                => (field = Some(TRUE) /\ WarningCount(section, key, raw[1]) = 0)
            /\ normalized \in AcceptedFalse
                => (field = Some(FALSE) /\ WarningCount(section, key, raw[1]) = 0)
            /\ normalized \notin AcceptedTrue \cup AcceptedFalse
                => (field = default /\ WarningCount(section, key, raw[1]) = 1)

\* The default of an action: read-content allowed, the other well-known actions
\* denied, any other action absent.
ActionDefault(property) ==
    IF property = <<"r","e","a","d","C","o","n","t","e","n","t">> THEN Some(TRUE)
    ELSE IF property \in WellKnownActions THEN Some(FALSE)
    ELSE None

\* C7: a boolean directive is accepted exactly when its value, trimmed and
\* lower-cased, is one of true/yes/1/on or false/no/0/off; any other value adds one
\* warning quoting the raw value and leaves the field at its section default.
C7_BooleanCoercion ==
    (Returned /\ outcome.success)
        => /\ \A i \in 1..Len(SectionData(<<"a","l","l","o","w","e","d"," ","a","c","t","i","o","n","s">>)) :
                  LET key == SectionData(<<"a","l","l","o","w","e","d"," ","a","c","t","i","o","n","s">>)[i][1]
                  IN  BooleanRule("allowed actions", key, RawValue(<<"a","l","l","o","w","e","d"," ","a","c","t","i","o","n","s">>, key),
                                  MapGet(Policy.allowedActions, CamelKey(key)),
                                  ActionDefault(CamelKey(key)))
           /\ BooleanRule("agent identification", <<"r","e","q","u","i","r","e","-","a","g","e","n","t","-","h","e","a","d","e","r">>,
                          RawValue(<<"a","g","e","n","t"," ","i","d","e","n","t","i","f","i","c","a","t","i","o","n">>, <<"r","e","q","u","i","r","e","-","a","g","e","n","t","-","h","e","a","d","e","r">>),
                          Some(Policy.agentIdentification.requireAgentHeader), Some(FALSE))
           /\ BooleanRule("agent identification", <<"r","e","q","u","i","r","e","-","d","i","s","c","l","o","s","u","r","e">>,
                          RawValue(<<"a","g","e","n","t"," ","i","d","e","n","t","i","f","i","c","a","t","i","o","n">>, <<"r","e","q","u","i","r","e","-","d","i","s","c","l","o","s","u","r","e">>),
                          Some(Policy.agentIdentification.requireDisclosure), Some(FALSE))
           /\ BooleanRule("data handling", <<"g","d","p","r","-","c","o","m","p","l","i","a","n","c","e">>,
                          RawValue(<<"d","a","t","a"," ","h","a","n","d","l","i","n","g">>, <<"g","d","p","r","-","c","o","m","p","l","i","a","n","c","e">>),
                          Policy.dataHandling.gdprCompliance, None)

\* read-content: maybe was parsed: one warning, readContent still true.
C7_Witness ==
    /\ Returned
    /\ outcome.success
    /\ RawValue(<<"a","l","l","o","w","e","d"," ","a","c","t","i","o","n","s">>, <<"r","e","a","d","-","c","o","n","t","e","n","t">>) = Some(<<"m","a","y","b","e">>)
    /\ MapGet(Policy.allowedActions, <<"r","e","a","d","C","o","n","t","e","n","t">>) = Some(TRUE)
    /\ WarningCount("allowed actions", <<"r","e","a","d","-","c","o","n","t","e","n","t">>, <<"m","a","y","b","e">>) = 1

-----------------------------------------------------------------------------
(* C8 and C9                                                               *)

\* What the claim says of one rate-limit directive.
RateLimitRule(key, field) ==
    LET raw == RawValue(<<"r","a","t","e"," ","l","i","m","i","t","s">>, key)
    IN  raw # None =>
            /\ ~CanonicalInteger(raw[1]) => (field = None /\ Warned("rate limits", key, raw[1]))
            /\ raw[1] = <<"0">> => field = Some(0)

\* C8: a rate-limit value that fails integer coercion gives a warning and leaves the
\* field absent, never 0, while the value "0" gives the field with value 0.
C8_RateLimitCoercion ==
    (Returned /\ outcome.success)
        => /\ RateLimitRule(<<"r","e","q","u","e","s","t","s","-","p","e","r","-","m","i","n","u","t","e">>, Policy.rateLimits.requestsPerMinute)
           /\ RateLimitRule(<<"r","e","q","u","e","s","t","s","-","p","e","r","-","h","o","u","r">>, Policy.rateLimits.requestsPerHour)
           /\ RateLimitRule(<<"c","o","n","c","u","r","r","e","n","t","-","s","e","s","s","i","o","n","s">>, Policy.rateLimits.concurrentSessions)

\* requests-per-minute: 12abc and requests-per-hour: 0 were parsed: the first is
\* absent, the second is 0.
C8_Witness ==
    /\ Returned
    /\ outcome.success
    /\ RawValue(<<"r","a","t","e"," ","l","i","m","i","t","s">>, <<"r","e","q","u","e","s","t","s","-","p","e","r","-","m","i","n","u","t","e">>) = Some(<<"1","2","a","b","c">>)
    /\ RawValue(<<"r","a","t","e"," ","l","i","m","i","t","s">>, <<"r","e","q","u","e","s","t","s","-","p","e","r","-","h","o","u","r">>) = Some(<<"0">>)
    /\ Policy.rateLimits.requestsPerMinute = None
    /\ Policy.rateLimits.requestsPerHour = Some(0)

\* C9: every rate-limit field present in a returned policy is a non-negative integer.
C9_RateLimitsNonNegative ==
    (Returned /\ outcome.success)
        => /\ Policy.rateLimits.requestsPerMinute # None
                => Policy.rateLimits.requestsPerMinute[1] >= 0
           /\ Policy.rateLimits.requestsPerHour # None
                => Policy.rateLimits.requestsPerHour[1] >= 0
           /\ Policy.rateLimits.concurrentSessions # None
                => Policy.rateLimits.concurrentSessions[1] >= 0

-----------------------------------------------------------------------------
(* C10                                                                     *)

-----------------------------------------------------------------------------
(* What the claims about fetchPolicy are stated with.                      *)

\* fetchPolicy has been called.
Called == fetchCall # None

\* The candidate URLs of the call, written out.
PrimaryUrl == StripTrailingSlashes(fetchCall[1].baseUrl) \o <<"/","A","G","E","N","T","S",".","m","d">>

FallbackUrl == StripTrailingSlashes(fetchCall[1].baseUrl) \o <<"/",".","w","e","l","l","-","k","n","o","w","n","/","a","g","e","n","t","s",".","m","d">>

\* The attempts still awaiting the network.
InFlight == {i \in 1..Len(attempts) : attempts[i].ended = "pending"}

\* fetchPolicy resolved to null.
ResolvedNull == settled # None /\ settled[1].kind = "resolved" /\ settled[1].value = None

\* fetchPolicy resolved to a ParseResult.
ResolvedParsed == settled # None /\ settled[1].kind = "resolved" /\ settled[1].value # None

\* fetchPolicy rejected.
RejectedCall == settled # None /\ settled[1].kind = "rejected"

\* The size of a body in bytes of UTF-8: one per character, two for U+00E9.
RECURSIVE BytesOfText(_)
BytesOfText(text) ==
    IF text = <<>> THEN 0
    ELSE (IF Head(text) = "U+00E9" THEN 2 ELSE 1) + BytesOfText(Tail(text))

BytesOf(body) == BytesOfText(body.text) + body.trailingNewlines

\* Attempt i received a success status and a body within the size limits.
Found(i) ==
    /\ attempts[i].response # None
    /\ attempts[i].response[1].status \in 200..299
    /\ attempts[i].body # None
    /\ BytesOf(attempts[i].body[1]) <= 1048576

\* Attempt i ended as not-found.
NotFound(i) == attempts[i].ended = "null"

\* The response of attempt i settled on a URL that is not https.
Downgraded(i) ==
    /\ attempts[i].response # None
    /\ ~StartsWith(attempts[i].response[1].url, <<"h","t","t","p","s",":","/","/">>)

-----------------------------------------------------------------------------
(* C11                                                                     *)

\* C11: the candidates are requested in the order /AGENTS.md, /.well-known/agents.md,
\* at most one at a time and at most two per call; the fallback only after the
\* primary ended as not-found; a candidate found is parsed and its ParseResult
\* returned, failed or not, and no later candidate is requested.
C11_CandidateOrder ==
    Called =>
        /\ Len(attempts) <= 2
        /\ Cardinality(InFlight) <= 1
        /\ Len(attempts) >= 1 => attempts[1].url = PrimaryUrl
        /\ Len(attempts) >= 2 => (attempts[2].url = FallbackUrl /\ NotFound(1))
        /\ \A i \in 1..Len(attempts) :
              Found(i) => /\ i = Len(attempts)
                          /\ ResolvedParsed
                          /\ settled[1].value[1] = Parse(attempts[i].body[1].text)

\* The primary was not found and the fallback body, which does not parse, is returned.
C11_Witness ==
    /\ Len(attempts) = 2
    /\ attempts[1].response # None /\ attempts[1].response[1].status = 404
    /\ Found(2)
    /\ ResolvedParsed
    /\ ~settled[1].value[1].success

-----------------------------------------------------------------------------
(* C12                                                                     *)

\* The caller left HTTPS enforcement on.
Enforcing ==
    fetchCall[1].options.enforceHttps = None \/ fetchCall[1].options.enforceHttps = Some(TRUE)

\* The scheme of the base URL is https (schemes are case-insensitive).
HttpsScheme == ToLowerCase(SubSeq(fetchCall[1].baseUrl, 1, 8)) = <<"h","t","t","p","s",":","/","/">>

\* fetchPolicy rejected with a FetchPolicyError.
RejectedWithFetchPolicyError == RejectedCall /\ settled[1].error[1].name = "FetchPolicyError"

\* C12: with HTTPS enforcement on, a call whose base URL is not https rejects with a
\* FetchPolicyError and no request is issued; with enforceHttps=false the same base
\* URL is requested and no FetchPolicyError is raised.
C12_HttpsPreflight ==
    (Called /\ ~HttpsScheme) =>
        /\ Enforcing => (RejectedWithFetchPolicyError /\ attempts = <<>>)
        /\ ~Enforcing => (Len(attempts) >= 1 /\ ~RejectedWithFetchPolicyError)

\* An http base URL rejected with enforcement on.
C12_Witness ==
    /\ Called /\ ~HttpsScheme /\ Enforcing
    /\ RejectedWithFetchPolicyError
    /\ attempts = <<>>

-----------------------------------------------------------------------------
(* C13                                                                     *)

\* C13: with HTTPS enforcement on, a candidate whose response settled on a URL that is
\* not https ends as not-found whatever its status: its body is never read, parsed or
\* returned, and discovery requests the next candidate or resolves to null after the
\* last.
C13_DowngradeIsNotFound ==
    (Called /\ Enforcing) =>
        \A i \in 1..Len(attempts) :
            Downgraded(i) =>
                /\ NotFound(i)
                /\ attempts[i].body = None
                /\ i = 1 => (Len(attempts) = 2 /\ attempts[2].url = FallbackUrl)
                /\ i = 2 => ResolvedNull

\* The primary answered 200 from a plain-HTTP URL; the fallback was requested and its
\* body is the one returned.
C13_Witness ==
    /\ Called /\ Enforcing
    /\ Len(attempts) = 2
    /\ Downgraded(1) /\ attempts[1].response[1].status = 200
    /\ Found(2) /\ ResolvedParsed

-----------------------------------------------------------------------------
(* C14                                                                     *)

\* C14: with HTTPS enforcement on, a call in which a response settled on a URL that is
\* not https is rejected, as a call with a non-https base URL is; it does not resolve
\* as if no policy had been found.
C14_DowngradeRaised ==
    (Called /\ Enforcing /\ settled # None /\ \E i \in 1..Len(attempts) : Downgraded(i))
        => RejectedCall

-----------------------------------------------------------------------------
(* C15                                                                     *)

\* The timeout of the call: 10 seconds unless the caller passed another.
TimeoutOfCall ==
    IF fetchCall[1].options.timeoutMs = None THEN 10000 ELSE fetchCall[1].options.timeoutMs[1]

\* No attempt is pending beyond its timeout, and an aborted attempt ended as not-found:
\* the next candidate was requested, or the call resolved to null after the last.
BoundedAttempts ==
    Called =>
        /\ elapsed <= TimeoutOfCall
        /\ \A i \in 1..Len(attempts) :
              /\ attempts[i].ended = "pending" => attempts[i].timer
              /\ attempts[i].aborted =>
                    /\ NotFound(i)
                    /\ i = 1 => Len(attempts) = 2
                    /\ i = 2 => ResolvedNull

-----------------------------------------------------------------------------
(* C16                                                                     *)

\* Attempt i failed with a network-level error that is not an abort.
NetworkFailure(i) ==
    /\ attempts[i].error # None
    /\ attempts[i].error[1].name # "AbortError"
    /\ ~attempts[i].aborted

\* C16: when a fetch attempt fails with a network-level error other than an abort,
\* fetchPolicy rejects with that same error, unmodified; the attempt does not end as
\* not-found, the call does not resolve to null, and no later candidate is requested.
C16_NetworkErrorPropagates ==
    Called =>
        \A i \in 1..Len(attempts) :
            NetworkFailure(i) =>
                /\ ~NotFound(i)
                /\ RejectedCall
                /\ settled[1].error[1] = attempts[i].error[1]
                /\ settled[1].error[1] \in NetworkErrors
                /\ i = Len(attempts)

\* The primary failed with "fetch failed" as the first candidate was requested, and
\* the call rejected with it.
C16_Witness ==
    /\ Len(attempts) = 1
    /\ NetworkFailure(1)
    /\ attempts[1].response = None
    /\ RejectedCall
    /\ settled[1].error[1] = [name |-> "TypeError", received |-> <<"f","e","t","c","h"," ","f","a","i","l","e","d">>]

-----------------------------------------------------------------------------
(* C17                                                                     *)

\* The Content-Length attempt i's response declared, None when it declared none.
DeclaredLength(i) ==
    IF attempts[i].response = None \/ attempts[i].response[1].contentLength = None THEN None
    ELSE ParseInt(attempts[i].response[1].contentLength[1])

\* The only body the parser was invoked on is one that was accepted.
ParsedOnlyAccepted ==
    log # <<>> =>
        \E j \in 1..Len(attempts) :
            /\ attempts[j].ended = "text"
            /\ log[1].content = attempts[j].body[1].text
            /\ BytesOf(attempts[j].body[1]) <= 1048576

\* C17: a candidate whose declared Content-Length exceeds 1,048,576 ends as not-found
\* without its body being read; one whose body measures more than 1,048,576 bytes
\* ends as not-found without the parser being invoked on it; a body of exactly
\* 1,048,576 bytes is accepted, parsed and returned.
C17_SizeLimit ==
    Called =>
        /\ ParsedOnlyAccepted
        /\ \A i \in 1..Len(attempts) :
              /\ (DeclaredLength(i) # None /\ DeclaredLength(i)[1] > 1048576) =>
                    (NotFound(i) /\ attempts[i].body = None)
              /\ (attempts[i].body # None /\ BytesOf(attempts[i].body[1]) > 1048576) =>
                    (NotFound(i) /\ (i = Len(attempts) => ResolvedNull))
              /\ (attempts[i].body # None /\ BytesOf(attempts[i].body[1]) = 1048576) =>
                    /\ attempts[i].ended = "text"
                    /\ i = Len(attempts)
                    /\ ResolvedParsed
                    /\ settled[1].value[1] = Parse(attempts[i].body[1].text)

\* The primary declared 1,048,577 bytes and was passed over; the fallback, which
\* declared the limit itself and measures exactly 1,048,576 bytes, a two-byte
\* character among them, was parsed and returned.
C17_Witness ==
    /\ Len(attempts) = 2
    /\ attempts[1].response # None
    /\ attempts[1].response[1].status = 200
    /\ attempts[1].response[1].contentLength = Some(<<"1","0","4","8","5","7","7">>)
    /\ ~Downgraded(1)
    /\ NotFound(1)
    /\ attempts[2].response # None
    /\ attempts[2].response[1].contentLength = Some(<<"1","0","4","8","5","7","6">>)
    /\ attempts[2].body # None
    /\ \E k \in DOMAIN attempts[2].body[1].text : attempts[2].body[1].text[k] = "U+00E9"
    /\ BytesOf(attempts[2].body[1]) = 1048576
    /\ ResolvedParsed
    /\ settled[1].value[1].success

-----------------------------------------------------------------------------
(* C18                                                                     *)

\* Attempt i was answered with a status that is not a success status.
NonSuccess(i) ==
    /\ attempts[i].response # None
    /\ attempts[i].response[1].status \notin 200..299

\* C18: a settled fetchPolicy call resolved to null exactly when both candidates were
\* attempted and each ended as not-found; no call rejects for that reason; a
\* candidate answered 404 or any other non-success status ends as not-found, its body
\* unread.
C18_NullWhenBothNotFound ==
    Called =>
        /\ settled # None =>
              (ResolvedNull <=> (Len(attempts) = 2 /\ NotFound(1) /\ NotFound(2)))
        /\ \A i \in 1..Len(attempts) :
              NonSuccess(i) => (NotFound(i) /\ attempts[i].body = None)

\* The primary answered 404, the fallback 500, and the call resolved to null.
C18_Witness ==
    /\ Len(attempts) = 2
    /\ NonSuccess(1) /\ attempts[1].response[1].status = 404
    /\ NonSuccess(2) /\ attempts[2].response[1].status = 500
    /\ ResolvedNull

-----------------------------------------------------------------------------
(* C19                                                                     *)

\* The max-age an origin's server declares with its policy file: two hours at
\* https://a, none at https://b.
ServerMaxAgeMs(baseUrl) == IF baseUrl = <<"h","t","t","p","s",":","/","/","a">> THEN Some(2 * 3600000) ELSE None

\* min(server-declared max-age, 24 hours)
EffectiveTtl(baseUrl) ==
    IF ServerMaxAgeMs(baseUrl) # None /\ ServerMaxAgeMs(baseUrl)[1] < 24 * 3600000
    THEN ServerMaxAgeMs(baseUrl)[1]
    ELSE 24 * 3600000

\* The age of the entry a getPolicy call read, at the time t.
AgeAt(call, t) == t - call.cached[1].fetchedAt

\* The call returned the entry it read without calling fetchPolicy.
ServedWithoutRefetch(call) == call.pc = "done" /\ call.fetched = None

\* The call's fetchPolicy call failed.
RefreshFailed(call) == call.fetched # None /\ call.fetched[1].kind = "rejected"

\* The call returned the policy of the entry it read.
ServedCached(call) == call.settled = Some(Resolved(Some(call.cached[1].policy)))

\* C19: a getPolicy call that reads an entry returns it without refetching only
\* while the entry's age is below effectiveTtl = min(server-declared max-age, 24
\* hours), and calls fetchPolicy otherwise; when that refresh fails, the entry read is
\* still served while its age is below effectiveTtl plus one hour, and not beyond.
C19_FreshnessAndGrace ==
    \A i \in DOMAIN cacheCalls :
        LET call == cacheCalls[i]
        IN  call.cached # None =>
                /\ ServedWithoutRefetch(call) <=>
                      (call.pc = "done"
                          /\ AgeAt(call, call.startedAt) < EffectiveTtl(call.baseUrl))
                /\ RefreshFailed(call) =>
                      (ServedCached(call) <=>
                          AgeAt(call, call.settledAt) < EffectiveTtl(call.baseUrl) + 3600000)

-----------------------------------------------------------------------------
(* C20                                                                     *)

\* The getPolicy calls for an origin whose fetchPolicy call is in flight.
RunsInFlight(origin) ==
    {i \in DOMAIN cacheCalls : cacheCalls[i].baseUrl = origin /\ cacheCalls[i].pc = "await"}

\* C20: at no time is more than one fetchPolicy call in flight for an origin, however
\* many getPolicy calls for it overlap on a cold or stale cache; and every entry of
\* the cache is a complete {policy, fetchedAt} record.
C20_OneRunPerOrigin ==
    /\ \A origin \in Origins : Cardinality(RunsInFlight(origin)) <= 1
    /\ \A baseUrl \in DOMAIN cache : DOMAIN cache[baseUrl] = {"policy", "fetchedAt"}

-----------------------------------------------------------------------------
(* C21                                                                     *)

\* validate has been called.
Validated == validation # None

ValidatedPolicy == validation[1].policy

ValidationErrorsOn(field) ==
    {i \in 1..Len(validation[1].result.errors) : validation[1].result.errors[i].field = field}

\* validate reported at least one error.
Invalid == ~validation[1].result.valid /\ Len(validation[1].result.errors) >= 1

ContainsAny(s, chars) == \E i \in 1..Len(s) : s[i] \in chars

ContainsSchemeSeparator(s) ==
    \E i \in 1..(Len(s) - 2) : s[i] = ":" /\ s[i + 1] = "/" /\ s[i + 2] = "/"

\* The lastUpdated texts validate is called with that are a date (YYYY-MM-DD) or a
\* full date-time.
WellFormedDates ==
    {<<"2","0","2","6","-","0","3","-","1","5">>, <<"2","0","2","6","-","0","3","-","1","5","T","1","0",":","3","0",":","0","0","Z">>, <<"2","0","2","6","-","0","3","-","1","5","T","1","0",":","3","0",":","0","0">>,
     <<"2","0","2","6","-","0","3","-","1","5","T","1","0",":","3","0",":","0","0",".","2","5","+","0","1",":","0","0">>, <<"2","0","2","6","-","0","3","-","1","5","T","1","0",":","3","0",":","0","0","-","0","8",":","0","0">>}

MalformedDate ==
    /\ ValidatedPolicy.identity.lastUpdated # None
    /\ ValidatedPolicy.identity.lastUpdated[1] \notin WellFormedDates

\* The site is empty or all whitespace, or contains '://' or a space character.
BadSite(site) ==
    \/ \A i \in 1..Len(site) : site[i] \in {" ", "\t", "\r", "\n"}
    \/ ContainsSchemeSeparator(site)
    \/ ContainsAny(site, {" "})

\* C21 as stated: a site that is empty, contains '://' or contains any whitespace
\* character, and a lastUpdated that is present and malformed, are each reported.
C21_AsStated ==
    Validated =>
        ((\/ ValidatedPolicy.identity.site = <<>>
          \/ ContainsSchemeSeparator(ValidatedPolicy.identity.site)
          \/ ContainsAny(ValidatedPolicy.identity.site, {" ", "\t", "\r", "\n"})
          \/ MalformedDate) => Invalid)

\* C21 (amended): validate reports a site error exactly when the site is empty or
\* all whitespace, contains '://' or contains a space character (U+0020): a tab or
\* a line break inside the site is not reported; it reports a lastUpdated error
\* exactly when lastUpdated is present and neither a date nor a full date-time; and
\* either error makes the result invalid.
C21_SiteAndDate ==
    Validated =>
        /\ ValidationErrorsOn("site") # {} <=> BadSite(ValidatedPolicy.identity.site)
        /\ ValidationErrorsOn("lastUpdated") # {} <=> MalformedDate
        /\ (ValidationErrorsOn("site") # {} \/ ValidationErrorsOn("lastUpdated") # {})
              => Invalid

\* A site with a scheme and a space: two site errors, and the date accepted.
C21_Witness ==
    /\ Validated
    /\ ValidatedPolicy.identity.site = <<"h","t","t","p","s",":","/","/","a"," ","b">>
    /\ ValidatedPolicy.identity.lastUpdated = Some(<<"2","0","2","6","-","0","3","-","1","5","T","1","0",":","3","0",":","0","0",".","2","5","+","0","1",":","0","0">>)
    /\ Cardinality(ValidationErrorsOn("site")) = 2
    /\ Len(validation[1].result.errors) = 2

-----------------------------------------------------------------------------
(* C22                                                                     *)

\* The number is an integer from lo to hi.
IntegerIn(number, lo, hi) ==
    ~number.nan /\ number.tenths = 0 /\ number.whole >= lo /\ number.whole <= hi

\* The rate limit is present and negative or not an integer.
BadRateLimit(value) ==
    value # None /\ (value[1].nan \/ value[1].tenths # 0 \/ value[1].whole < 0)

\* The enumerated value is present and not one of `documented`.
BadEnum(value, documented) == value # None /\ value[1] \notin documented

\* The paths of the list that do not start with '/'.
RelativePaths(paths) == {i \in 1..Len(paths) : paths[i] = <<>> \/ paths[i][1] # "/"}

\* The fields of the validated policy that break a rule of the validator.
RuleBreakingFields ==
    LET p == ValidatedPolicy
    IN  {f \in {"site"} : BadSite(p.identity.site)}
        \cup {f \in {"lastUpdated"} : MalformedDate}
        \cup {f \in {"minimumTrustLevel"} :
                ~IntegerIn(p.trustRequirements.minimumTrustLevel, 0, 5)}
        \cup {f \in {"authentication"} :
                p.trustRequirements.authentication \notin {<<"r","e","q","u","i","r","e","d">>, <<"o","p","t","i","o","n","a","l">>, <<"n","o","n","e">>}}
        \cup {f \in {"authenticationMethods"} :
                /\ p.trustRequirements.authenticationMethods # None
                /\ \E i \in 1..Len(p.trustRequirements.authenticationMethods[1]) :
                      Trim(p.trustRequirements.authenticationMethods[1][i]) = <<>>}
        \cup {f \in {"requestsPerMinute"} : BadRateLimit(p.rateLimits.requestsPerMinute)}
        \cup {f \in {"requestsPerHour"} : BadRateLimit(p.rateLimits.requestsPerHour)}
        \cup {f \in {"concurrentSessions"} : BadRateLimit(p.rateLimits.concurrentSessions)}
        \cup {f \in {"personalDataCollection"} :
                BadEnum(p.dataHandling.personalDataCollection,
                        {<<"n","o","n","e">>, <<"m","i","n","i","m","a","l">>, <<"s","t","a","n","d","a","r","d">>, <<"e","x","t","e","n","s","i","v","e">>})}
        \cup {f \in {"dataRetention"} :
                BadEnum(p.dataHandling.dataRetention,
                        {<<"n","o","n","e">>, <<"s","e","s","s","i","o","n","-","o","n","l","y">>, <<"3","0","-","d","a","y","s">>, <<"1","-","y","e","a","r">>, <<"i","n","d","e","f","i","n","i","t","e">>})}
        \cup {f \in {"thirdPartySharing"} :
                BadEnum(p.dataHandling.thirdPartySharing,
                        {<<"n","o","n","e">>, <<"a","n","o","n","y","m","i","z","e","d">>, <<"w","i","t","h","-","c","o","n","s","e","n","t">>, <<"u","n","r","e","s","t","r","i","c","t","e","d">>})}
        \cup {f \in {"disallowedPaths"} : RelativePaths(p.restrictions.disallowedPaths) # {}}
        \cup {f \in {"requireHumanApproval"} :
                RelativePaths(p.restrictions.requireHumanApproval) # {}}
        \cup {f \in {"readOnlyPaths"} : RelativePaths(p.restrictions.readOnlyPaths) # {}}
        \cup {f \in {"agentHeaderName"} :
                /\ p.agentIdentification.agentHeaderName # None
                /\ Trim(p.agentIdentification.agentHeaderName[1]) = <<>>}

\* C22: valid is exactly "errors is empty"; every field that breaks a rule (a trust
\* level that is not an integer in 0..5, an authentication outside the three values,
\* a present rate limit that is negative or not an integer, a present data-handling
\* value outside its documented ones, a path that does not start with '/') has an
\* entry in errors, one for each offending path; a policy that breaks no rule is
\* valid with no errors, trust levels 0 and 5 and a rate limit of 0 included.
C22_ValidIffNoErrors ==
    Validated =>
        /\ validation[1].result.valid <=> validation[1].result.errors = <<>>
        /\ \A f \in RuleBreakingFields : ValidationErrorsOn(f) # {}
        /\ \A i \in 1..Len(validation[1].result.errors) :
              validation[1].result.errors[i].field \in RuleBreakingFields
        /\ \A f \in {"disallowedPaths", "requireHumanApproval", "readOnlyPaths"} :
              Cardinality(ValidationErrorsOn(f))
                  = Cardinality(RelativePaths(ValidatedPolicy.restrictions[f]))
        /\ RuleBreakingFields = {} => validation[1].result.valid

\* Trust level 5 and an hourly limit of 0: valid, no errors.
C22_Witness ==
    /\ Validated
    /\ ValidatedPolicy.trustRequirements.minimumTrustLevel = Num(5)
    /\ ValidatedPolicy.rateLimits.requestsPerHour = Some(Num(0))
    /\ validation[1].result.valid
    /\ validation[1].result.errors = <<>>

\* The known sections that take plain directives: the section name, the name
\* warnings carry, and the keys recognized in the section.
KnownSections == {
    [name |-> <<"i","d","e","n","t","i","t","y">>, section |-> "identity",
     keys |-> {<<"s","i","t","e">>, <<"c","o","n","t","a","c","t">>, <<"l","a","s","t","-","u","p","d","a","t","e","d">>, <<"s","p","e","c","-","v","e","r","s","i","o","n">>}],
    [name |-> <<"t","r","u","s","t"," ","r","e","q","u","i","r","e","m","e","n","t","s">>, section |-> "trust requirements",
     keys |-> {<<"m","i","n","i","m","u","m","-","t","r","u","s","t","-","l","e","v","e","l">>, <<"a","u","t","h","e","n","t","i","c","a","t","i","o","n">>, <<"a","u","t","h","e","n","t","i","c","a","t","i","o","n","-","m","e","t","h","o","d","s">>}],
    [name |-> <<"r","a","t","e"," ","l","i","m","i","t","s">>, section |-> "rate limits",
     keys |-> {<<"r","e","q","u","e","s","t","s","-","p","e","r","-","m","i","n","u","t","e">>, <<"r","e","q","u","e","s","t","s","-","p","e","r","-","h","o","u","r">>, <<"c","o","n","c","u","r","r","e","n","t","-","s","e","s","s","i","o","n","s">>}],
    [name |-> <<"d","a","t","a"," ","h","a","n","d","l","i","n","g">>, section |-> "data handling",
     keys |-> {<<"p","e","r","s","o","n","a","l","-","d","a","t","a","-","c","o","l","l","e","c","t","i","o","n">>, <<"d","a","t","a","-","r","e","t","e","n","t","i","o","n">>, <<"t","h","i","r","d","-","p","a","r","t","y","-","s","h","a","r","i","n","g">>,
               <<"g","d","p","r","-","c","o","m","p","l","i","a","n","c","e">>}],
    [name |-> <<"r","e","s","t","r","i","c","t","i","o","n","s">>, section |-> "restrictions",
     keys |-> {<<"d","i","s","a","l","l","o","w","e","d","-","p","a","t","h","s">>, <<"r","e","q","u","i","r","e","-","h","u","m","a","n","-","a","p","p","r","o","v","a","l">>, <<"r","e","a","d","-","o","n","l","y","-","p","a","t","h","s">>}],
    [name |-> <<"a","g","e","n","t"," ","i","d","e","n","t","i","f","i","c","a","t","i","o","n">>, section |-> "agent identification",
     keys |-> {<<"r","e","q","u","i","r","e","-","a","g","e","n","t","-","h","e","a","d","e","r">>, <<"a","g","e","n","t","-","h","e","a","d","e","r","-","n","a","m","e">>, <<"r","e","q","u","i","r","e","-","d","i","s","c","l","o","s","u","r","e">>}] }

\* The keys of the directives of the section called `name` in the parsed file.
KeysIn(name) == {SectionData(name)[i][1] : i \in 1..Len(SectionData(name))}

\* A warning of the outcome is attributed to this section and names this key.
WarnedAboutKey(section, key) ==
    \E i \in 1..Len(outcome.warnings) :
        /\ outcome.warnings[i].section = section
        /\ outcome.warnings[i].key = key

\* C23: in every known section (Identity, Trust Requirements, Rate Limits, Data
\* Handling, Restrictions, Agent Identification) a directive whose key is not
\* recognized for the section and has no "x-" prefix produces a warning, a key with
\* the "x-" prefix produces none, and the parse of a file with a site succeeds.
C23_UnknownKeysWarn ==
    (Returned /\ HasSite)
        => /\ outcome.success
           /\ \A known \in KnownSections : \A key \in KeysIn(known.name) :
                  /\ (key \notin known.keys /\ ~StartsWith(key, <<"x","-">>))
                         => WarnedAboutKey(known.section, key)
                  /\ StartsWith(key, <<"x","-">>) => ~WarnedAboutKey(known.section, key)

\* The lines of the parsed file.
ContentLines == SplitLines(content)

\* The lines of the parsed file that are section headings.
HeadingLines == {i \in 1..Len(ContentLines) : SectionMatch(ContentLines[i]) # None}

\* The section name the heading on line i gives: trimmed and lower-cased.
NameAt(i) == ToLowerCase(Trim(SectionMatch(ContentLines[i])[1]))

\* The line after the last line of the section that starts on heading line i.
EndOfSection(i) ==
    IF \E j \in HeadingLines : j > i
    THEN CHOOSE j \in HeadingLines : j > i /\ \A k \in HeadingLines : k > i => j <= k
    ELSE Len(ContentLines) + 1

\* The directives written under the heading on line i, and under no other.
DirectivesUnder(i) == ParseKeyValueLines(SubSeq(ContentLines, i + 1, EndOfSection(i) - 1))

\* The heading on line i is the last of its name in the file.
LastOfItsName(i) == \A j \in HeadingLines : NameAt(j) = NameAt(i) => j <= i

DeclaresSite(data) == MapGet(data, <<"s","i","t","e">>) # None /\ Trim(MapGet(data, <<"s","i","t","e">>)[1]) # <<>>

\* C24: when a section name occurs more than once in a file (compared after
\* trimming and lower-casing), the directives of the section are those of its last
\* occurrence alone; a file whose last Identity section declares no site fails to
\* parse, whatever an earlier Identity section declared.
C24_LastOccurrenceWins ==
    (Returned /\ ~IsBlank(content))
        => \A i \in HeadingLines :
              LastOfItsName(i)
                  => /\ SectionData(NameAt(i)) = DirectivesUnder(i)
                     /\ (NameAt(i) = <<"i","d","e","n","t","i","t","y">> /\ ~DeclaresSite(DirectivesUnder(i)))
                            => ~outcome.success

\* A parse of a file whose first Identity section declares a site and whose last
\* Identity section, under a heading written differently, declares none.
C24_Witness ==
    /\ Returned
    /\ \E i, j \in HeadingLines :
          /\ i < j
          /\ NameAt(i) = <<"i","d","e","n","t","i","t","y">> /\ NameAt(j) = <<"i","d","e","n","t","i","t","y">>
          /\ ContentLines[i] # ContentLines[j]
          /\ LastOfItsName(j)
          /\ DeclaresSite(DirectivesUnder(i))
          /\ ~DeclaresSite(DirectivesUnder(j))
          /\ DirectivesUnder(j) # <<>>
    /\ ~outcome.success
    /\ SectionData(<<"i","d","e","n","t","i","t","y">>) = <<<<<<"c","o","n","t","a","c","t">>, <<"c">>>>>>

\* The position of the first ":" of a text that has one.
FirstColon(t) == CHOOSE p \in 1..Len(t) : t[p] = ":" /\ \A q \in 1..(p - 1) : t[q] # ":"

\* The key a bullet line gives: the text between the bullet and the first ":",
\* trimmed and lower-cased.
KeyOf(line) == ToLowerCase(Trim(SubSeq(Trim(line), 3, FirstColon(Trim(line)) - 1)))

\* The value a bullet line gives: all the text after the first ":", trimmed.
ValueOf(line) == Trim(SubSeq(Trim(line), FirstColon(Trim(line)) + 1, Len(Trim(line))))

\* The line, trimmed, starts with the bullet, contains a ":" and has a key.
IsDirectiveLine(line) ==
    /\ StartsWith(Trim(line), <<"-"," ">>)
    /\ \E p \in 1..Len(Trim(line)) : Trim(line)[p] = ":"
    /\ KeyOf(line) # <<>>

\* The directive lines of the section that starts on heading line i.
DirectiveLinesUnder(i) ==
    {j \in (i + 1)..(EndOfSection(i) - 1) : IsDirectiveLine(ContentLines[j])}

\* The lines that are headings, or directive lines below a heading.
KeptLines(lines, headings) ==
    {j \in 1..Len(lines) :
        \/ j \in headings
        \/ (\E i \in headings : i < j) /\ IsDirectiveLine(lines[j])}

\* The lines with the numbers in `kept`, in order.
SelectLines(lines, kept) == [k \in 1..Cardinality(kept) |-> lines[Nth(kept, k)]]

\* The parsed file without the lines that are neither headings nor directives of a
\* section: the preamble, comments, blank lines, prose and malformed bullet lines.
WithoutIgnoredLines ==
    Join(SelectLines(ContentLines, KeptLines(ContentLines, HeadingLines)), <<"\n">>)

\* The directives of the section `name` are those the lines numbered `under` give:
\* the keys are the keys of the lines, and a key has the value of its last line.
DirectivesAgree(name, lines, under) ==
    /\ KeysIn(name) = {KeyOf(lines[j]) : j \in under}
    /\ \A j \in under :
           (\A k \in under : KeyOf(lines[k]) = KeyOf(lines[j]) => k <= j)
               => RawValue(name, KeyOf(lines[j])) = Some(ValueOf(lines[j]))

\* C25: within a section a line is a directive only if, trimmed, it starts with
\* "- " and contains a ":"; its key is the text before the first ":" (trimmed,
\* lower-cased) and its value all the text after that ":" (trimmed), the last line
\* with a key giving the key's value; bullet lines without ":" or with an empty
\* key, comments, blank lines, prose and everything before the first heading give
\* no directive, and the outcome is that of the file without them: they produce no
\* error and no warning.
C25_DirectiveLines ==
    (Returned /\ HeadingLines # {})
        => /\ \A i \in HeadingLines :
                  LastOfItsName(i)
                      => DirectivesAgree(NameAt(i), ContentLines, DirectiveLinesUnder(i))
           /\ outcome = Parse(WithoutIgnoredLines)

\* A parse of a file with a preamble bullet line, an indented directive whose value
\* contains ":" and a bullet line with an empty key: one directive, no error, no
\* warning.
C25_Witness ==
    /\ Returned
    /\ HeadingLines = {3}
    /\ ContentLines[1] = <<"-"," ","s","i","t","e",":"," ","p","r","e">>
    /\ \E j \in 4..Len(ContentLines) : ContentLines[j] = <<" ","-"," "," ","S","i","t","e"," ",":"," "," ","h",":","8","0"," ">>
    /\ \E j \in 4..Len(ContentLines) : ContentLines[j] = <<"-"," ",":"," ","v">>
    /\ SectionData(<<"i","d","e","n","t","i","t","y">>) = <<<<<<"s","i","t","e">>, <<"h",":","8","0">>>>>>
    /\ outcome.success
    /\ outcome.errors = <<>>
    /\ outcome.warnings = <<>>
    /\ Policy.identity.site = <<"h",":","8","0">>

\* `list` with `item` trimmed and added, unless nothing is left of it.
WithItem(list, item) == IF Trim(item) = <<>> THEN list ELSE Append(list, Trim(item))

\* The elements of a comma-separated text from character i on: split at the
\* commas, trimmed, without the empty ones, in the order written.
RECURSIVE ListFrom(_, _, _, _)
ListFrom(raw, i, item, list) ==
    IF i > Len(raw) THEN WithItem(list, item)
    ELSE IF raw[i] = "," THEN ListFrom(raw, i + 1, <<>>, WithItem(list, item))
    ELSE ListFrom(raw, i + 1, Append(item, raw[i]), list)

\* The path list the Restrictions directive `key` of the parsed file gives.
PathsOf(key) ==
    IF RawValue(<<"r","e","s","t","r","i","c","t","i","o","n","s">>, key) = None THEN <<>>
    ELSE ListFrom(RawValue(<<"r","e","s","t","r","i","c","t","i","o","n","s">>, key)[1], 1, <<>>, <<>>)

\* The paths of the three Restrictions directives of the parsed file.
ListedPaths ==
    PathsOf(<<"d","i","s","a","l","l","o","w","e","d","-","p","a","t","h","s">>) \o PathsOf(<<"r","e","q","u","i","r","e","-","h","u","m","a","n","-","a","p","p","r","o","v","a","l">>)
        \o PathsOf(<<"r","e","a","d","-","o","n","l","y","-","p","a","t","h","s">>)

\* The places where a path that does not start with "/" is listed.
Offending == {i \in 1..Len(ListedPaths) : ~StartsWith(ListedPaths[i], <<"/">>)}

RestrictionWarnings ==
    {i \in 1..Len(outcome.warnings) : outcome.warnings[i].section = "restrictions"}

\* C26: for every path listed under disallowed-paths, require-human-approval or
\* read-only-paths that does not start with "/", parse appends exactly one warning
\* whose section is "restrictions" and that names the path, and no other warning of
\* that section; the parse still succeeds; the path lists are the comma-split,
\* trimmed values without their empty elements, in input order.
C26_RelativePathsWarn ==
    (Returned /\ HasSite)
        => /\ outcome.success
           /\ Policy.restrictions.disallowedPaths = PathsOf(<<"d","i","s","a","l","l","o","w","e","d","-","p","a","t","h","s">>)
           /\ Policy.restrictions.requireHumanApproval = PathsOf(<<"r","e","q","u","i","r","e","-","h","u","m","a","n","-","a","p","p","r","o","v","a","l">>)
           /\ Policy.restrictions.readOnlyPaths = PathsOf(<<"r","e","a","d","-","o","n","l","y","-","p","a","t","h","s">>)
           /\ \A i \in 1..Len(ListedPaths) :
                  WarningCount("restrictions", <<>>, ListedPaths[i])
                      = Cardinality({j \in Offending : ListedPaths[j] = ListedPaths[i]})
           /\ Cardinality(RestrictionWarnings) = Cardinality(Offending)

\* A parse of a file that lists two relative paths and, in another list, a relative
\* path after an absolute one: three warnings, and the parse succeeds.
C26_Witness ==
    /\ Returned
    /\ outcome.success
    /\ RawValue(<<"r","e","s","t","r","i","c","t","i","o","n","s">>, <<"d","i","s","a","l","l","o","w","e","d","-","p","a","t","h","s">>) = Some(<<"a","d","m","i","n","/","*",","," ","i","n","t","e","r","n","a","l">>)
    /\ Policy.restrictions.disallowedPaths = <<<<"a","d","m","i","n","/","*">>, <<"i","n","t","e","r","n","a","l">>>>
    /\ Policy.restrictions.readOnlyPaths = <<<<"/","b","l","o","g","/","*">>, <<"b","l","o","g">>>>
    /\ WarningCount("restrictions", <<>>, <<"a","d","m","i","n","/","*">>) = 1
    /\ WarningCount("restrictions", <<>>, <<"i","n","t","e","r","n","a","l">>) = 1
    /\ WarningCount("restrictions", <<>>, <<"b","l","o","g">>) = 1
    /\ Len(outcome.warnings) = 3

\* The last run of init called initFile.
Generated == initRun # None /\ initRun[1].result # None

\* The content the last run of init generated.
GeneratedContent == initRun[1].result[1].content

\* The generated content has this line.
GeneratedLine(line) ==
    \E i \in 1..Len(SplitLines(GeneratedContent)) : SplitLines(GeneratedContent)[i] = line

\* C27: when the requested requests-per-minute or requests-per-hour is 0, the
\* AGENTS.md that init generates has the directive with the value 0, and parsing
\* the generated file yields the field with the value 0.
C27_ZeroRateLimitKept ==
    Generated
        => /\ initRun[1].opts.rpm = <<"0">>
                  => /\ GeneratedLine(<<"-"," ","r","e","q","u","e","s","t","s","-","p","e","r","-","m","i","n","u","t","e",":"," ","0">>)
                     /\ Parse(GeneratedContent).success
                     /\ Parse(GeneratedContent).policy[1].rateLimits.requestsPerMinute = Some(0)
           /\ initRun[1].opts.rph = <<"0">>
                  => /\ GeneratedLine(<<"-"," ","r","e","q","u","e","s","t","s","-","p","e","r","-","h","o","u","r",":"," ","0">>)
                     /\ Parse(GeneratedContent).success
                     /\ Parse(GeneratedContent).policy[1].rateLimits.requestsPerHour = Some(0)

\* A run of init reports that it created or overwrote the file.
ReportsCreation(run) == run.reported \in {"Created AGENTS.md", "Overwrote existing AGENTS.md"}

\* C28: a run of init that calls initFile writes AGENTS.md only if the file did not
\* exist beforehand or overwrite is true, and then the file holds the generated
\* content; when the file exists and overwrite is false the file is left as it
\* was, the result has alreadyExisted = true, and the command exits with status 1
\* without reporting a creation.
C28_WritesOnlyWhenAllowed ==
    [][(initRun' # None /\ initRun'[1].result # None)
          => /\ initRun'[1].result[1].alreadyExisted = (disk # None)
             /\ (disk # None /\ ~initRun'[1].opts.overwrite)
                    => /\ disk' = disk
                       /\ initRun'[1].exitCode = 1
                       /\ ~ReportsCreation(initRun'[1])
             /\ (disk = None \/ initRun'[1].opts.overwrite)
                    => /\ disk' = Some(initRun'[1].result[1].content)
                       /\ initRun'[1].exitCode = 0
                       /\ ReportsCreation(initRun'[1])]_vars

\* A run of init without --overwrite in a directory whose AGENTS.md an earlier run
\* with other options wrote: the file is not what this run generated.
C28_Witness ==
    /\ Generated
    /\ initRun[1].result[1].alreadyExisted
    /\ ~initRun[1].opts.overwrite
    /\ initRun[1].exitCode = 1
    /\ disk # None
    /\ disk # Some(GeneratedContent)

\* The editor has analyzed the document and the parser has parsed its text.
Analyzed == diagnostics # None /\ Returned

\* analyzeDocument reports an Error on the line with this 1-based number.
ErrorOnLine(i) ==
    \E d \in 1..Len(diagnostics[1]) :
        diagnostics[1][d].line = i - 1 /\ diagnostics[1][d].severity = "Error"

\* analyzeDocument reports the required Identity section as missing.
ReportedMissingIdentity ==
    \E d \in 1..Len(diagnostics[1]) :
        /\ diagnostics[1][d].text = "Required section is missing"
        /\ diagnostics[1][d].value = <<"#","#"," ","I","d","e","n","t","i","t","y">>

\* The keys whose values the parser reads as booleans.
ParserBooleanKeys ==
    {<<"r","e","a","d","-","c","o","n","t","e","n","t">>, <<"s","u","b","m","i","t","-","f","o","r","m","s">>, <<"m","a","k","e","-","p","u","r","c","h","a","s","e","s">>, <<"m","o","d","i","f","y","-","a","c","c","o","u","n","t">>, <<"a","c","c","e","s","s","-","a","p","i">>,
     <<"d","o","w","n","l","o","a","d","-","f","i","l","e","s">>, <<"u","p","l","o","a","d","-","f","i","l","e","s">>, <<"s","e","n","d","-","m","e","s","s","a","g","e","s">>, <<"d","e","l","e","t","e","-","d","a","t","a">>, <<"c","r","e","a","t","e","-","c","o","n","t","e","n","t">>,
     <<"r","e","q","u","i","r","e","-","a","g","e","n","t","-","h","e","a","d","e","r">>, <<"r","e","q","u","i","r","e","-","d","i","s","c","l","o","s","u","r","e">>, <<"g","d","p","r","-","c","o","m","p","l","i","a","n","c","e">>}

\* Line i of the document is a boolean directive whose value the parser accepts:
\* one of true/yes/1/on/false/no/0/off in any case, and no warning names it.
AcceptedBooleanLine(i) ==
    /\ IsDirectiveLine(ContentLines[i])
    /\ KeyOf(ContentLines[i]) \in ParserBooleanKeys
    /\ ToLowerCase(ValueOf(ContentLines[i]))
           \in {<<"t","r","u","e">>, <<"y","e","s">>, <<"1">>, <<"o","n">>, <<"f","a","l","s","e">>, <<"n","o">>, <<"0">>, <<"o","f","f">>}
    /\ ~\E w \in 1..Len(outcome.warnings) :
           /\ outcome.warnings[w].key = KeyOf(ContentLines[i])
           /\ outcome.warnings[w].raw = ValueOf(ContentLines[i])

\* C29: analyzeDocument reports no Error on a boolean directive whose value the
\* parser accepts without warning, and does not report the Identity section as
\* missing in a file in which the parser finds an Identity section.
C29_EditorAgreesWithParser ==
    Analyzed
        => /\ \A i \in 1..Len(ContentLines) : AcceptedBooleanLine(i) => ~ErrorOnLine(i)
           /\ MapHas(sections, <<"i","d","e","n","t","i","t","y">>) => ~ReportedMissingIdentity

\* C30: every policy returned by a successful parse that produced no warning
\* passes validate: valid is true and there is no error.
C30_CleanParseValidates ==
    (Returned /\ outcome.success /\ outcome.warnings = <<>> /\ Validated)
        => /\ validation[1].result.valid
           /\ validation[1].result.errors = <<>>

=============================================================================
